---- MODULE Spec2Model ----
(***************************************************************************)
(* A model of vklearn's TrimNetX detection head (models/trimnetx.py): the  *)
(* multi-round confidence loss (focal_boost / calc_loss), the box          *)
(* encode/decode rules, target assignment (collate_fn), the inference      *)
(* pipeline (detect, update_metric) and the checkpoint mapping.            *)
(*                                                                         *)
(* Numbers.  Tensors of floats are modelled exactly where the property is  *)
(* algebraic: a rational is a pair <<n, d>> with d > 0, and a raw network  *)
(* output x that is only ever read through exp / tanh / sigmoid is kept as *)
(* the rational E = exp(x).  Loss values are fixed point, in units of      *)
(* 1/10000, with an explicit not-a-number value.                           *)
(***************************************************************************)
EXTENDS Integers, Sequences, FiniteSets, TLC

VARIABLES
    \* ---- calc_loss / focal_boost --------------------------------------
    target_index,   \* sequence of positive locations (flattened b,a,r,c)
    conf_id,        \* the next round calc_loss runs
    sample_mask,    \* <<>> for None, <<S>> for the mask S handed to the next round
    used_masks,     \* used_masks[k+1]: the mask round k reduced over
    pred_conf,      \* inputs[..., conf_id] of the last round run
    loss,           \* the dict calc_loss builds, and the divisor of the last round
    pc_loss,
    \* ---- test_target2outputs / pred2boxes -----------------------------
    codec_target,   \* the ground-truth box, its label and its (anchor, row, col) slot
    codec_object,   \* outputs[target_index]: the slot test_target2outputs filled
    codec_result,   \* what calc_loss computes at that slot
    pc_codec,
    \* ---- _select_anchor -----------------------------------------------
    sel_anchors,    \* self.anchors
    sel_box,        \* the box handed to _select_anchor
    sel_out,        \* <<>>, or <<anchor id>> once it has returned
    \* ---- _select_row / _select_column ---------------------------------
    cell_box,       \* the box handed to _select_row / _select_column
    cell_out,       \* <<>>, or the axis, the noise added and the cell returned
    \* ---- collate_fn ---------------------------------------------------
    coll_batch,     \* the batch: a sequence of targets [labels, boxes]
    coll_i,         \* the loop index i (0-based, as enumerate gives it)
    coll_lists,     \* batch_ids, anchor_ids, row_ids, column_ids, list_labels, list_bboxes
    coll_out,       \* <<>>, or (target_index, target_labels, target_bboxes)
    \* ---- batched_nms in detect / update_metric ------------------------
    nms_preds,      \* the predictions: box, score, label (0-based)
    nms_thresh,     \* iou_thresh
    nms_out,        \* <<>>, or the caller, the batch ids and the ids kept per image
    \* ---- detect -------------------------------------------------------
    det_in,         \* image size, align_size, thresholds, the confidences the heads give
    det_pc,
    det_out,        \* <<>>, or the candidates, the object head's outputs and the result
    \* ---- load_from_state / dump_to_state ------------------------------
    ck_model,       \* the model m
    ck_state,       \* the mapping handed to dump_to_state / load_from_state
    ck_loaded,      \* <<>>, or what load_from_state gave: a model or an exception
    ck_redump,      \* <<>>, or <<the mapping the loaded model dumps>>
    ck_pc,
    \* ---- the candidate rule of detect / calc_score / update_metric ---------
    cand_in,        \* the raw confidences of one slot and conf_thresh
    cand_out,       \* per function: <<>>, or whether the slot is a candidate and its score
    \* ---- the channels of forward and detect --------------------------------
    chan_cfg,       \* num_anchors, swap_size, num_tries, num_classes of the model
    chan_out,       \* per function: <<>>, or where each channel it gives comes from
    \* ---- Trainer.initialize ------------------------------------------------
    tr_args,        \* the arguments the Trainer was constructed with
    tr_out,         \* <<>>, or the model and optimizer state after initialize
    \* ---- Trainer.fit -------------------------------------------------------
    fit_cfg,        \* epochs, save_epoch, the loaders (their lengths) and the step caps
    fit_pc,         \* where fit is
    fit_epoch,      \* epoch of the for loop
    fit_step,       \* step of the running loop
    fit_training,   \* model.training
    fit_valid,      \* samples valid_generator has given
    fit_log         \* the calls made on the task, in order

varsLoss == <<target_index, conf_id, sample_mask, used_masks, pred_conf, loss, pc_loss>>

varsCodec == <<codec_target, codec_object, codec_result, pc_codec>>

varsSel == <<sel_anchors, sel_box, sel_out>>

varsCell == <<cell_box, cell_out>>

varsColl == <<coll_batch, coll_i, coll_lists, coll_out>>

varsNms == <<nms_preds, nms_thresh, nms_out>>

varsDet == <<det_in, det_pc, det_out>>

varsCkpt == <<ck_model, ck_state, ck_loaded, ck_redump, ck_pc>>

varsCand == <<cand_in, cand_out>>

varsChan == <<chan_cfg, chan_out>>

varsTrainer == <<tr_args, tr_out>>

varsFit == <<fit_cfg, fit_pc, fit_epoch, fit_step, fit_training, fit_valid, fit_log>>

vars == <<varsLoss, varsCodec, varsSel, varsCell, varsColl, varsNms, varsDet, varsCkpt, varsCand, varsChan, varsTrainer, varsFit>>

(***************************************************************************)
(* Bounds of the model and constants of the program.                       *)
(***************************************************************************)
NumLocs   == 3      \* batch * anchors * rows * cols of the raw output
MaxBoxes  == 2      \* ground-truth boxes in a batch
NumTries  == 3      \* num_tries, the constructor's default
CellSize  == 16     \* self.cell_size
GridN     == 3      \* rows and columns of the grid
NumClasses == 2     \* num_classes
MaxAnchors == 3     \* len(anchors)
RandSteps  == 4     \* torch.rand_like draws k / RandSteps, 0 <= k < RandSteps
MaxSamples == 2     \* samples in a batch
MaxDet     == 3     \* predictions handed to batched_nms
MaxEpochs  == 2     \* epochs of a run of fit
MaxLoader  == 2     \* samples of a data loader
F32Steps   == 4     \* float32 values per unit

Locs     == 1..NumLocs
ConfVals == {-1, 1}             \* raw confidences (logits)

Max(a, b) == IF a >= b THEN a ELSE b
Min(a, b) == IF a <= b THEN a ELSE b

RECURSIVE SumOver(_, _)
SumOver(f, S) ==
    IF S = {} THEN 0
    ELSE LET x == CHOOSE y \in S : TRUE IN f[x] + SumOver(f, S \ {x})

RECURSIVE SumSeq(_)
SumSeq(s) == IF s = <<>> THEN 0 ELSE Head(s) + SumSeq(Tail(s))

SetMin(S) == CHOOSE x \in S : \A y \in S : x <= y

(***************************************************************************)
(* Loss values: fixed point (1/10000) or NaN.  reduction='mean' over an    *)
(* empty selection is 0/0 = NaN.                                           *)
(***************************************************************************)
Fin(v)  == [nan |-> FALSE, v |-> v]
NaN     == [nan |-> TRUE,  v |-> 0]
IsFinite(a) == ~a.nan
Add(a, b)   == IF a.nan \/ b.nan THEN NaN ELSE Fin(a.v + b.v)
Mean(sum, n) == IF n = 0 THEN NaN ELSE Fin(sum \div n)
ZerosLike(a) == Fin(0)

\* torchvision.ops.sigmoid_focal_loss(x, t) with alpha = 0.25, gamma = 2, per element
SigmoidFocal(x, t) ==
    CASE x = -1 -> IF t = 1 THEN 1755 ELSE 170
      [] x = 0  -> IF t = 1 THEN 433  ELSE 1300
      [] x = 1  -> IF t = 1 THEN 57   ELSE 5264

\* F.binary_cross_entropy_with_logits(x, t), per element
BCEWithLogits(x, t) ==
    CASE x = -1 -> IF t = 1 THEN 13133 ELSE 3133
      [] x = 0  -> 6931
      [] x = 1  -> IF t = 1 THEN 3133  ELSE 13133

\* alpha = (cos(pi / num_tries * conf_id) + 1) / 2, in quarters, for num_tries = 3
AlphaQuarters(k) == CASE k = 0 -> 4 [] k = 1 -> 3 [] k = 2 -> 1

\* targ_conf[target_index] = 1.: the set of locations holding a 1
Positives(ti) == {ti[i] : i \in DOMAIN ti}

\* (sampled_targ.sum() / len(pred_conf)).numel(): the element count of a 0-d tensor
NumForegroundPerImg(sampled_targ_sum) == 1

\* focal_boost keeping only the locations strictly above the minimum
FocalBoostStrict(col, ti, mask, k) ==
    LET targ     == [l \in Locs |-> IF l \in Positives(ti) THEN 1 ELSE 0]
        used     == IF mask = <<>> THEN Locs ELSE mask[1]
        sampled  == Mean(SumOver([l \in Locs |-> SigmoidFocal(col[l], targ[l])], used),
                         Cardinality(used))
        obj_mask == {l \in used : targ[l] = 1}
        obj_loss == IF obj_mask # {}
                    THEN SumOver([l \in Locs |-> BCEWithLogits(col[l], 1)], obj_mask)
                             \div Cardinality(obj_mask)
                    ELSE 0
        next     == IF obj_mask # {}
                    THEN {l \in Locs : col[l] > SetMin({col[o] : o \in obj_mask})}
                    ELSE used
        nfg      == NumForegroundPerImg(SumOver(targ, used))
        divisor  == Max(1, nfg)
    IN  [conf_loss    |-> Add(Fin((obj_loss * AlphaQuarters(k)) \div (4 * divisor)), sampled),
         sampled_loss |-> sampled,
         sample_mask  |-> next,
         used         |-> used,
         divisor      |-> divisor]

(***************************************************************************)
(* focal_boost(inputs, target_index, sample_mask, conf_id), with col the   *)
(* column inputs[..., conf_id].                                            *)
(***************************************************************************)
FocalBoost(col, ti, mask, k) ==
    LET targ     == [l \in Locs |-> IF l \in Positives(ti) THEN 1 ELSE 0]
        used     == IF mask = <<>> THEN Locs ELSE mask[1]
        sampled  == Mean(SumOver([l \in Locs |-> SigmoidFocal(col[l], targ[l])], used),
                         Cardinality(used))
        obj_mask == {l \in used : targ[l] = 1}
        obj_loss == IF obj_mask # {}
                    THEN SumOver([l \in Locs |-> BCEWithLogits(col[l], 1)], obj_mask)
                             \div Cardinality(obj_mask)
                    ELSE 0
        next     == IF obj_mask # {}
                    THEN {l \in Locs : col[l] >= SetMin({col[o] : o \in obj_mask})}
                    ELSE used
        nfg      == NumForegroundPerImg(SumOver(targ, used))
        divisor  == Max(1, nfg)
    IN  [conf_loss    |-> Add(Fin((obj_loss * AlphaQuarters(k)) \div (4 * divisor)), sampled),
         sampled_loss |-> sampled,
         sample_mask  |-> next,
         used         |-> used,
         divisor      |-> divisor]

(***************************************************************************)
(* calc_loss.  One action per focal_boost call of its loop, one for the    *)
(* rest of the function.  The per-object terms of generalized_box_iou_loss *)
(* and F.cross_entropy (reduction='none') are inputs: they are functions   *)
(* of the regression and class channels, which the confidence rounds never *)
(* read.                                                                   *)
(***************************************************************************)
ObjectTerms == {[giou |-> 0, ce |-> 0], [giou |-> 7500, ce |-> 6931]}

\* calc_loss is symmetric in the order of the boxes: the index is listed in
\* non-decreasing order; two boxes may collide on one location
TargetIndexes ==
    {t \in UNION {[1..n -> Locs] : n \in 0..MaxBoxes} :
        \A i \in DOMAIN t : \A j \in DOMAIN t : i < j => t[i] <= t[j]}

\* The same reductions with the guard on objects.shape[0] lost.
ObjectLossesUnguarded(conf_loss, giou, ce) ==
    [bbox_loss |-> Mean(SumSeq(giou), Len(giou)),
     clss_loss |-> Mean(SumSeq(ce), Len(ce))]

\* lines 406-418: the guard on objects.shape[0] and the two mean reductions
ObjectLosses(conf_loss, giou, ce) ==
    IF Len(giou) > 0
    THEN [bbox_loss |-> Mean(SumSeq(giou), Len(giou)),
          clss_loss |-> Mean(SumSeq(ce), Len(ce))]
    ELSE [bbox_loss |-> ZerosLike(conf_loss),
          clss_loss |-> ZerosLike(conf_loss)]

IdleLoss ==
    /\ target_index = <<>>
    /\ conf_id = 0
    /\ sample_mask = <<>>
    /\ used_masks = <<>>
    /\ pred_conf = <<>>
    /\ loss = <<>>
    /\ pc_loss = "idle"

IdleCodec ==
    /\ codec_target = <<>>
    /\ codec_object = <<>>
    /\ codec_result = <<>>
    /\ pc_codec = "idle"

IdleSel ==
    /\ sel_anchors = <<>>
    /\ sel_box = <<>>
    /\ sel_out = <<>>

IdleCell ==
    /\ cell_box = <<>>
    /\ cell_out = <<>>

IdleColl ==
    /\ coll_batch = <<>>
    /\ coll_i = 0
    /\ coll_lists = <<>>
    /\ coll_out = <<>>

IdleNms ==
    /\ nms_preds = <<>>
    /\ nms_thresh = <<>>
    /\ nms_out = <<>>

IdleDet ==
    /\ det_in = <<>>
    /\ det_pc = "idle"
    /\ det_out = <<>>

IdleCkpt ==
    /\ ck_model = <<>>
    /\ ck_state = <<>>
    /\ ck_loaded = <<>>
    /\ ck_redump = <<>>
    /\ ck_pc = "idle"

IdleCand ==
    /\ cand_in = <<>>
    /\ cand_out = <<>>

IdleChan ==
    /\ chan_cfg = <<>>
    /\ chan_out = <<>>

IdleTrainer ==
    /\ tr_args = <<>>
    /\ tr_out = <<>>

IdleFit ==
    /\ fit_cfg = <<>>
    /\ fit_pc = "idle"
    /\ fit_epoch = 0
    /\ fit_step = 0
    /\ fit_training = FALSE
    /\ fit_valid = 0
    /\ fit_log = <<>>

InitLoss ==
    /\ IdleCodec /\ IdleSel /\ IdleCell /\ IdleColl /\ IdleNms /\ IdleDet /\ IdleCkpt /\ IdleCand /\ IdleChan /\ IdleTrainer /\ IdleFit
    /\ target_index \in TargetIndexes
    /\ conf_id = 0
    /\ sample_mask = <<>>
    /\ used_masks = <<>>
    /\ pred_conf = [l \in Locs |-> 0]
    /\ loss = [conf_loss |-> Fin(0), sampled_loss |-> Fin(0), bbox_loss |-> Fin(0),
               clss_loss |-> Fin(0), loss |-> Fin(0), divisor |-> 1]
    /\ pc_loss = "boost"

\* lines 395-400: round conf_id of the chain
FocalBoostRound ==
    /\ pc_loss = "boost"
    /\ conf_id < NumTries
    /\ \E col \in [Locs -> ConfVals] :
         LET r == FocalBoost(col, target_index, sample_mask, conf_id) IN
         /\ pred_conf' = col
         /\ sample_mask' = <<r.sample_mask>>
         /\ used_masks' = Append(used_masks, r.used)
         /\ loss' = [loss EXCEPT !.conf_loss = IF conf_id = 0 THEN r.conf_loss
                                               ELSE Add(@, r.conf_loss),
                                 !.sampled_loss = r.sampled_loss,
                                 !.divisor = r.divisor]
    /\ conf_id' = conf_id + 1
    /\ UNCHANGED <<target_index, pc_loss, varsCodec, varsSel, varsCell, varsColl, varsNms, varsDet, varsCkpt, varsCand, varsChan, varsTrainer, varsFit>>

\* lines 402-434: the object losses and the returned dict
CalcLossObjects ==
    /\ pc_loss = "boost"
    /\ conf_id = NumTries
    /\ \E terms \in [1..Len(target_index) -> ObjectTerms] :
         LET o == ObjectLosses(loss.conf_loss,
                               [i \in DOMAIN terms |-> terms[i].giou],
                               [i \in DOMAIN terms |-> terms[i].ce]) IN
         loss' = [loss EXCEPT !.bbox_loss = o.bbox_loss,
                              !.clss_loss = o.clss_loss,
                              !.loss = Add(Add(loss.conf_loss, o.bbox_loss), o.clss_loss)]
    /\ pc_loss' = "done"
    /\ UNCHANGED <<target_index, conf_id, sample_mask, used_masks, pred_conf, varsCodec, varsSel, varsCell, varsColl, varsNms, varsDet, varsCkpt, varsCand, varsChan, varsTrainer, varsFit>>

NextLoss == FocalBoostRound \/ CalcLossObjects

SpecLoss == InitLoss /\ [][NextLoss]_vars

(***************************************************************************)
(* Rationals <<n, d>>, d > 0, kept in lowest terms.                        *)
(***************************************************************************)
Abs(x) == IF x < 0 THEN -x ELSE x

RECURSIVE GCD(_, _)
GCD(a, b) == IF b = 0 THEN a ELSE GCD(b, a % b)

RNorm(r) ==
    LET g == GCD(Abs(r[1]), r[2]) IN <<r[1] \div g, r[2] \div g>>

R(n, d)    == RNorm(<<n, d>>)
RInt(n)    == <<n, 1>>
RAdd(a, b) == RNorm(<<a[1] * b[2] + b[1] * a[2], a[2] * b[2]>>)
RSub(a, b) == RNorm(<<a[1] * b[2] - b[1] * a[2], a[2] * b[2]>>)
RMul(a, b) == RNorm(<<a[1] * b[1], a[2] * b[2]>>)
RLe(a, b)  == a[1] * b[2] <= b[1] * a[2]
RLt(a, b)  == a[1] * b[2] < b[1] * a[2]
RAbs(a)    == <<Abs(a[1]), a[2]>>
RClamp(a, lo, hi) == IF RLt(a, lo) THEN lo ELSE IF RLt(hi, a) THEN hi ELSE a
\* floor of a rational
RFloor(a)  == a[1] \div a[2]

\* round(x) of Python and torch.round: the nearest integer, halves to even
RRound(r) ==
    LET f == RFloor(r)
        d == RSub(r, RInt(f))
    IN  IF RLt(d, <<1, 2>>) THEN f
        ELSE IF RLt(<<1, 2>>, d) THEN f + 1
        ELSE IF f % 2 = 0 THEN f ELSE f + 1

(***************************************************************************)
(* Boxes, anchors and the raw regression channels.  A raw value x is kept  *)
(* as the rational exp(x): log(q) is q itself, inverse_sigmoid(p) =        *)
(* log(p / (1 - p)) is p / (1 - p), exp of it gives it back, and           *)
(* tanh(x) = (exp(x)^2 - 1) / (exp(x)^2 + 1).                              *)
(***************************************************************************)
Anchors == <<<<8, 8>>, <<16, 32>>>>        \* self.anchors, (width, height)

ImageSize == GridN * CellSize
Coords    == {4 * c : c \in 0..(ImageSize \div 4)}
Boxes     == {b \in [x1 : Coords, y1 : Coords, x2 : Coords, y2 : Coords] :
                 b.x1 < b.x2 /\ b.y1 < b.y2}

Eps == <<1, 100000>>                        \* eps = 1e-5

\* box_convert(boxes, 'xyxy', 'cxcywh')
XYXY2CXCYWH(b) ==
    [cx |-> R(b.x1 + b.x2, 2), cy |-> R(b.y1 + b.y2, 2),
     w  |-> RInt(b.x2 - b.x1),  h  |-> RInt(b.y2 - b.y1)]

\* box_convert(boxes, 'cxcywh', 'xyxy')
CXCYWH2XYXY(c) ==
    [x1 |-> RSub(c.cx, RMul(c.w, <<1, 2>>)), y1 |-> RSub(c.cy, RMul(c.h, <<1, 2>>)),
     x2 |-> RAdd(c.cx, RMul(c.w, <<1, 2>>)), y2 |-> RAdd(c.cy, RMul(c.h, <<1, 2>>))]

\* c % cell_size / cell_size, for c >= 0
CellFraction(c) ==
    LET whole == RFloor(R(c[1], c[2] * CellSize)) IN
    RMul(RSub(c, RInt(whole * CellSize)), <<1, CellSize>>)

\* inverse_sigmoid = lambda x: torch.log(x / (1 - x)), for 0 < p < 1
InverseSigmoid(p) == R(p[1], p[2] - p[1])

\* torch.log(size / anchor size)
LogRatio(size, anchor) == R(size[1], size[2] * anchor)

\* torch.exp of a raw value
Exp(e) == e

\* torch.tanh of a raw value; in float32 tanh(x) is exactly -1 or 1 once |x| > 9.1
Tanh(e) ==
    IF e[2] > 8000 * e[1] THEN RInt(-1)
    ELSE IF e[1] > 8000 * e[2] THEN RInt(1)
    ELSE R(e[1] * e[1] - e[2] * e[2], e[1] * e[1] + e[2] * e[2])

\* torch.sigmoid of a raw value; in float32 sigmoid(x) is exactly 1 once x > 17.4
Sigmoid(e) ==
    IF e[1] >= 33554432 * e[2] THEN RInt(1) ELSE R(e[1], e[1] + e[2])

(***************************************************************************)
(* test_target2outputs, for one target: the slot it writes.                *)
(***************************************************************************)
Target2Outputs(t) ==
    LET c == XYXY2CXCYWH(t.bbox) IN
    [confs  |-> [k \in 1..NumTries |-> 1000],
     dx     |-> InverseSigmoid(RClamp(CellFraction(c.cx), Eps, RSub(RInt(1), Eps))),
     dy     |-> InverseSigmoid(RClamp(CellFraction(c.cy), Eps, RSub(RInt(1), Eps))),
     sw     |-> LogRatio(c.w, Anchors[t.anchor][1]),
     sh     |-> LogRatio(c.h, Anchors[t.anchor][2]),
     clss   |-> [l \in 1..NumClasses |-> IF l = t.label THEN 1000 ELSE -1000]]

(***************************************************************************)
(* pred2boxes, for one object at slot (anchor, row, col).                  *)
(***************************************************************************)
Pred2CXCYWH(o, anchor, row, col) ==
    [cx |-> RMul(RAdd(RAdd(Tanh(o.dx), <<1, 2>>), RInt(col)), RInt(CellSize)),
     cy |-> RMul(RAdd(RAdd(Tanh(o.dy), <<1, 2>>), RInt(row)), RInt(CellSize)),
     w  |-> RMul(Exp(o.sw), RInt(Anchors[anchor][1])),
     h  |-> RMul(Exp(o.sh), RInt(Anchors[anchor][2]))]

Pred2Boxes(o, anchor, row, col) == CXCYWH2XYXY(Pred2CXCYWH(o, anchor, row, col))

(***************************************************************************)
(* The object losses of calc_loss at one slot, in units of 1/1000, on box  *)
(* coordinates rounded down to 1/10 pixel.                                 *)
(***************************************************************************)
Tenths(r) == RFloor(RMul(r, RInt(10)))

\* torchvision.ops.generalized_box_iou_loss(pred, target), one pair of boxes
GIoULoss(p, g) ==
    LET x1 == Tenths(p.x1)  y1 == Tenths(p.y1)  x2 == Tenths(p.x2)  y2 == Tenths(p.y2)
        x1g == 10 * g.x1    y1g == 10 * g.y1    x2g == 10 * g.x2    y2g == 10 * g.y2
        xkis1 == Max(x1, x1g)  ykis1 == Max(y1, y1g)
        xkis2 == Min(x2, x2g)  ykis2 == Min(y2, y2g)
        intsct == IF ykis2 > ykis1 /\ xkis2 > xkis1
                  THEN (xkis2 - xkis1) * (ykis2 - ykis1) ELSE 0
        union  == (x2 - x1) * (y2 - y1) + (x2g - x1g) * (y2g - y1g) - intsct
        area_c == (Max(x2, x2g) - Min(x1, x1g)) * (Max(y2, y2g) - Min(y1, y1g))
    IN  1000 - (intsct * 1000) \div union + ((area_c - union) * 1000) \div area_c

\* F.cross_entropy(logits, label), one object, for logits of +-1000
CrossEntropy(logits, label) ==
    LET top == {l \in DOMAIN logits : logits[l] = 1000} IN
    IF top = {} \/ (label \in top /\ Cardinality(top) > 1) THEN 693
    ELSE IF label \in top THEN 0
    ELSE 2000000

CodecTargets ==
    {[bbox |-> b, label |-> l, anchor |-> a,
      row |-> RFloor(R(b.y1 + b.y2, 2 * CellSize)),
      col |-> RFloor(R(b.x1 + b.x2, 2 * CellSize))] :
        b \in Boxes, l \in 1..NumClasses, a \in DOMAIN Anchors}

InitCodec ==
    /\ IdleLoss /\ IdleSel /\ IdleCell /\ IdleColl /\ IdleNms /\ IdleDet /\ IdleCkpt /\ IdleCand /\ IdleChan /\ IdleTrainer /\ IdleFit
    /\ codec_target \in CodecTargets
    /\ codec_object = <<>>
    /\ codec_result = <<>>
    /\ pc_codec = "encode"

\* lines 300-325: the raw output is pre-populated at the target's slot
TestTarget2Outputs ==
    /\ pc_codec = "encode"
    /\ codec_object' = Target2Outputs(codec_target)
    /\ pc_codec' = "loss"
    /\ UNCHANGED <<codec_target, codec_result, varsLoss, varsSel, varsCell, varsColl, varsNms, varsDet, varsCkpt, varsCand, varsChan, varsTrainer, varsFit>>

\* lines 406-418: calc_loss decodes the slot and compares it with the target
CalcLossOnOutputs ==
    /\ pc_codec = "loss"
    /\ LET pred == Pred2Boxes(codec_object, codec_target.anchor,
                              codec_target.row, codec_target.col) IN
       codec_result' = [pred_xyxy |-> pred,
                        bbox_loss |-> GIoULoss(pred, codec_target.bbox),
                        clss_loss |-> CrossEntropy(codec_object.clss, codec_target.label)]
    /\ pc_codec' = "done"
    /\ UNCHANGED <<codec_target, codec_object, varsLoss, varsSel, varsCell, varsColl, varsNms, varsDet, varsCkpt, varsCand, varsChan, varsTrainer, varsFit>>

NextCodec == TestTarget2Outputs \/ CalcLossOnOutputs

SpecCodec == InitCodec /\ [][NextCodec]_vars

(***************************************************************************)
(* Target assignment: _select_anchor.  Anchor ids are 1-based here.        *)
(***************************************************************************)
\* torch.argmax over a row of ious, scanning for the last maximal value
RECURSIVE ArgMaxScanLast(_, _, _)
ArgMaxScanLast(v, i, best) ==
    IF i > Len(v) THEN best
    ELSE ArgMaxScanLast(v, i + 1, IF RLe(v[best], v[i]) THEN i ELSE best)

ArgMaxLast(v) == ArgMaxScanLast(v, 2, 1)

RECURSIVE ArgMaxScan(_, _, _)
ArgMaxScan(v, i, best) ==
    IF i > Len(v) THEN best
    ELSE ArgMaxScan(v, i + 1, IF RLt(v[best], v[i]) THEN i ELSE best)

\* torch.argmax(ious, dim=1) for one row: the index of the first maximal value
ArgMax(v) == ArgMaxScan(v, 2, 1)

\* lines 564-572, for one box: its row of ious
AnchorIoUs(anchors, b) ==
    LET w == b.x2 - b.x1
        h == b.y2 - b.y1
        inter_area == [a \in DOMAIN anchors |->
                          Min(w, anchors[a][1]) * Min(h, anchors[a][2])]
        boxes_area == w * h
        union_area == [a \in DOMAIN anchors |->
                          boxes_area + anchors[a][1] * anchors[a][2] - inter_area[a]]
    IN  [a \in DOMAIN anchors |-> R(inter_area[a], union_area[a])]

SelectAnchor(anchors, b) == ArgMax(AnchorIoUs(anchors, b))

AnchorDims == {8, 16}
AnchorSets == UNION {[1..n -> AnchorDims \X AnchorDims] : n \in 1..MaxAnchors}
SelBoxes   == {b \in Boxes : b.x1 = 0 /\ b.y1 = 4}

InitSel ==
    /\ IdleLoss /\ IdleCodec /\ IdleCell /\ IdleColl /\ IdleNms /\ IdleDet /\ IdleCkpt /\ IdleCand /\ IdleChan /\ IdleTrainer /\ IdleFit
    /\ sel_anchors \in AnchorSets
    /\ sel_box \in SelBoxes
    /\ sel_out = <<>>

\* lines 563-574
SelectAnchorCall ==
    /\ sel_out = <<>>
    /\ sel_box # <<>>
    /\ sel_out' = <<SelectAnchor(sel_anchors, sel_box)>>
    /\ UNCHANGED <<sel_anchors, sel_box, varsLoss, varsCodec, varsCell, varsColl, varsNms, varsDet, varsCkpt, varsCand, varsChan, varsTrainer, varsFit>>

NextSel == SelectAnchorCall

SpecSel == InitSel /\ [][NextSel]_vars

(***************************************************************************)
(* Target assignment: _select_row and _select_column, for one box.  u is   *)
(* the draw of torch.rand_like, the number u / RandSteps of [0, 1).        *)
(***************************************************************************)
RandDraws == 0..(RandSteps - 1)

\* the k with 2^(k-1) <= r < 2^k, for r >= 1 (0 below 1)
RECURSIVE Binade(_, _)
Binade(r, k) == IF RLt(r, RInt(2^k)) THEN k ELSE Binade(r, k + 1)

\* The float32 nearest to r >= 0, ties to even: 24 significant bits, so a
\* step of 2^(k-24) in the binade 2^(k-1) <= r < 2^k.  The values of the
\* model have power-of-two denominators up to 2^24, which are exact below 1.
Float32(r) ==
    LET den == 2^(24 - Binade(r, 0)) IN
    IF den >= r[2] THEN r
    ELSE R(RRound(<<r[1], r[2] \div den>>), den)

\* the largest float32 below the integer x >= 1
PredFloat32(x) ==
    LET den == 2^(24 - Binade(R(2 * x - 1, 2), 0)) IN R(x * den - 1, den)

\* a box of the codec as the rows of a float32 boxes tensor
Float32Box(b) == [x1 |-> RInt(b.x1), y1 |-> RInt(b.y1), x2 |-> RInt(b.x2), y2 |-> RInt(b.y2)]

\* boxes inside the image, one float32 step thick, against its far edge
ThinBoxes ==
    {[x1 |-> RInt(0), y1 |-> PredFloat32(ImageSize), x2 |-> RInt(4), y2 |-> RInt(ImageSize)],
     [x1 |-> PredFloat32(ImageSize), y1 |-> RInt(0), x2 |-> RInt(ImageSize), y2 |-> RInt(4)]}

\* the boxes handed to _select_row / _select_column
CellBoxes == {Float32Box(b) : b \in Boxes} \cup ThinBoxes

\* Tensor.type(torch.int64): rounds toward zero
Trunc(r) == IF r[1] >= 0 THEN r[1] \div r[2] ELSE -((-r[1]) \div r[2])

\* torch.rand_like(c) * cell_size - cell_size / 2
RandNoise(u) == RSub(RMul(R(u, RandSteps), RInt(CellSize)), R(CellSize, 2))

\* The noise with the threshold one cell instead of two.
CellNoiseOneCell(len, u) == IF RLt(len, RInt(CellSize)) THEN RInt(0) ELSE RandNoise(u)

\* lines 579-581 / 589-591: noise[len < 2 * cell_size] = 0.
CellNoise(len, u) == IF RLt(len, RInt(2 * CellSize)) THEN RInt(0) ELSE RandNoise(u)

\* lines 582-583 / 592-593
CellOf(center, noise) == Trunc(RMul(Float32(RAdd(center, noise)), <<1, CellSize>>))

\* lines 577 / 587: (lo + hi) * 0.5 in float32
Center(lo, hi) == RMul(Float32(RAdd(lo, hi)), <<1, 2>>)

\* lines 580 / 590: hi - lo in float32
Length(lo, hi) == Float32(RSub(hi, lo))

SelectRow(b, u) ==
    CellOf(Center(b.y1, b.y2), CellNoise(Length(b.y1, b.y2), u))

SelectColumn(b, u) ==
    CellOf(Center(b.x1, b.x2), CellNoise(Length(b.x1, b.x2), u))

InitCell ==
    /\ IdleLoss /\ IdleCodec /\ IdleSel /\ IdleColl /\ IdleNms /\ IdleDet /\ IdleCkpt /\ IdleCand /\ IdleChan /\ IdleTrainer /\ IdleFit
    /\ cell_box \in CellBoxes
    /\ cell_out = <<>>

\* lines 576-584
SelectRowCall ==
    /\ cell_out = <<>>
    /\ cell_box # <<>>
    /\ \E u \in RandDraws :
         cell_out' = [axis |-> "row",
                      center |-> Center(cell_box.y1, cell_box.y2),
                      len    |-> Length(cell_box.y1, cell_box.y2),
                      noise  |-> CellNoise(Length(cell_box.y1, cell_box.y2), u),
                      cell   |-> SelectRow(cell_box, u)]
    /\ UNCHANGED <<cell_box, varsLoss, varsCodec, varsSel, varsColl, varsNms, varsDet, varsCkpt, varsCand, varsChan, varsTrainer, varsFit>>

\* lines 586-594
SelectColumnCall ==
    /\ cell_out = <<>>
    /\ cell_box # <<>>
    /\ \E u \in RandDraws :
         cell_out' = [axis |-> "column",
                      center |-> Center(cell_box.x1, cell_box.x2),
                      len    |-> Length(cell_box.x1, cell_box.x2),
                      noise  |-> CellNoise(Length(cell_box.x1, cell_box.x2), u),
                      cell   |-> SelectColumn(cell_box, u)]
    /\ UNCHANGED <<cell_box, varsLoss, varsCodec, varsSel, varsColl, varsNms, varsDet, varsCkpt, varsCand, varsChan, varsTrainer, varsFit>>

NextCell == SelectRowCall \/ SelectColumnCall

SpecCell == InitCell /\ [][NextCell]_vars

(***************************************************************************)
(* collate_fn.  A sample's target holds a labels tensor and a boxes tensor *)
(* of the same length; the images, which collate_fn only concatenates, are *)
(* left out.  One action per iteration of its loop, one for the rest.      *)
(***************************************************************************)
\* torch.cat of a list of 1-d tensors
RECURSIVE Cat(_)
Cat(list) == IF list = <<>> THEN <<>> ELSE Head(list) \o Cat(Tail(list))

\* torch.full_like(labels, i) with the sample index lost
FullLikeZero(labels, i) == [k \in DOMAIN labels |-> 0]

\* torch.full_like(labels, i)
FullLike(labels, i) == [k \in DOMAIN labels |-> i]

\* the rows (columns) _select_row (_select_column) can return for a boxes tensor
RowChoices(boxes) ==
    LET cand == [k \in DOMAIN boxes |-> {SelectRow(Float32Box(boxes[k]), u) : u \in RandDraws}] IN
    {rows \in [DOMAIN boxes -> UNION {cand[k] : k \in DOMAIN boxes}] :
        \A k \in DOMAIN boxes : rows[k] \in cand[k]}

ColumnChoices(boxes) ==
    LET cand == [k \in DOMAIN boxes |-> {SelectColumn(Float32Box(boxes[k]), u) : u \in RandDraws}] IN
    {cols \in [DOMAIN boxes -> UNION {cand[k] : k \in DOMAIN boxes}] :
        \A k \in DOMAIN boxes : cols[k] \in cand[k]}

CollPool ==
    {[label |-> 1, box |-> [x1 |-> 4, y1 |-> 0, x2 |-> 12, y2 |-> 16]],
     [label |-> 2, box |-> [x1 |-> 0, y1 |-> 0, x2 |-> 8,  y2 |-> 2 * CellSize]]}

CollTargets ==
    {[labels |-> [k \in DOMAIN t |-> t[k].label], boxes |-> [k \in DOMAIN t |-> t[k].box]] :
        t \in UNION {[1..n -> CollPool] : n \in 0..MaxBoxes}}

\* batches of up to MaxSamples samples holding up to MaxBoxes boxes in all
CollBatches ==
    {b \in UNION {[1..n -> CollTargets] : n \in 1..MaxSamples} :
        SumSeq([s \in DOMAIN b |-> Len(b[s].boxes)]) <= MaxBoxes}

InitColl ==
    /\ IdleLoss /\ IdleCodec /\ IdleSel /\ IdleCell /\ IdleNms /\ IdleDet /\ IdleCkpt /\ IdleCand /\ IdleChan /\ IdleTrainer /\ IdleFit
    /\ coll_batch \in CollBatches
    /\ coll_i = 0
    /\ coll_lists = [batch_ids |-> <<>>, anchor_ids |-> <<>>, row_ids |-> <<>>,
                     column_ids |-> <<>>, list_labels |-> <<>>, list_bboxes |-> <<>>]
    /\ coll_out = <<>>

\* lines 609-619: the loop body for sample i
CollateSample ==
    /\ coll_out = <<>>
    /\ coll_i < Len(coll_batch)
    /\ LET target == coll_batch[coll_i + 1]
           labels == target.labels
           boxes  == target.boxes
           anchor_ids == [k \in DOMAIN boxes |-> SelectAnchor(Anchors, boxes[k])]
           rowsets == RowChoices(boxes)
           colsets == ColumnChoices(boxes)
       IN  \E rows \in rowsets : \E cols \in colsets :
             coll_lists' =
               [batch_ids   |-> Append(coll_lists.batch_ids, FullLike(labels, coll_i)),
                anchor_ids  |-> Append(coll_lists.anchor_ids, anchor_ids),
                row_ids     |-> Append(coll_lists.row_ids, rows),
                column_ids  |-> Append(coll_lists.column_ids, cols),
                list_labels |-> Append(coll_lists.list_labels, labels),
                list_bboxes |-> Append(coll_lists.list_bboxes, boxes)]
    /\ coll_i' = coll_i + 1
    /\ UNCHANGED <<coll_batch, coll_out, varsLoss, varsCodec, varsSel, varsCell, varsNms, varsDet, varsCkpt, varsCand, varsChan, varsTrainer, varsFit>>

\* lines 621-630: the concatenations and the return
CollateReturn ==
    /\ coll_out = <<>>
    /\ coll_batch # <<>>
    /\ coll_i = Len(coll_batch)
    /\ coll_out' = <<[target_index  |-> <<Cat(coll_lists.batch_ids),
                                          Cat(coll_lists.anchor_ids),
                                          Cat(coll_lists.row_ids),
                                          Cat(coll_lists.column_ids)>>,
                      target_labels |-> Cat(coll_lists.list_labels),
                      target_bboxes |-> Cat(coll_lists.list_bboxes)]>>
    /\ UNCHANGED <<coll_batch, coll_i, coll_lists, varsLoss, varsCodec, varsSel, varsCell, varsNms, varsDet, varsCkpt, varsCand, varsChan, varsTrainer, varsFit>>

NextColl == CollateSample \/ CollateReturn

SpecColl == InitColl /\ [][NextColl]_vars

(***************************************************************************)
(* torchvision.ops.boxes.batched_nms, as detect and update_metric call it. *)
(* Boxes have integer coordinates here, scores are integers (any unit),    *)
(* labels are 0-based class indices, thresholds are rationals.             *)
(***************************************************************************)
BoxArea(b) == (b.x2 - b.x1) * (b.y2 - b.y1)

BoxInter(a, b) ==
    LET w == Min(a.x2, b.x2) - Max(a.x1, b.x1)
        h == Min(a.y2, b.y2) - Max(a.y1, b.y1)
    IN  IF w > 0 /\ h > 0 THEN w * h ELSE 0

\* box_iou(a, b) > thresh
IoUAbove(a, b, th) ==
    BoxInter(a, b) * th[2] > th[1] * (BoxArea(a) + BoxArea(b) - BoxInter(a, b))

\* the orders scores.sort(descending=True) can give: equal scores in any order
RECURSIVE SortFrom(_, _)
SortFrom(scores, rest) ==
    IF rest = {} THEN {<<>>}
    ELSE UNION {{<<i>> \o o : o \in SortFrom(scores, rest \ {i})} :
                    i \in {r \in rest : \A q \in rest : scores[r] >= scores[q]}}

SortOrders(scores) == SortFrom(scores, DOMAIN scores)

\* nms(boxes, scores, iou_threshold): greedy, in the order of the scores; the
\* ids kept, by decreasing score
RECURSIVE NmsScan(_, _, _, _, _)
NmsScan(boxes, order, th, k, keep) ==
    IF k > Len(order) THEN keep
    ELSE LET i == order[k]
             suppressed == \E j \in DOMAIN keep : IoUAbove(boxes[keep[j]], boxes[i], th)
         IN  NmsScan(boxes, order, th, k + 1, IF suppressed THEN keep ELSE Append(keep, i))

Nms(boxes, order, th) == NmsScan(boxes, order, th, 1, <<>>)

MaxCoordinate(boxes) ==
    CHOOSE m \in {boxes[i][f] : i \in DOMAIN boxes, f \in {"x1", "y1", "x2", "y2"}} :
        \A i \in DOMAIN boxes : \A f \in {"x1", "y1", "x2", "y2"} : boxes[i][f] <= m

Shift(b, d) == [x1 |-> b.x1 + d, y1 |-> b.y1 + d, x2 |-> b.x2 + d, y2 |-> b.y2 + d]

\* nms over all the boxes with the class offsets lost
BatchedNmsAgnostic(boxes, order, idxs, th) ==
    IF boxes = <<>> THEN <<>> ELSE Nms(boxes, order, th)

\* batched_nms(boxes, scores, idxs, iou_threshold): each class is moved by
\* idxs * (max_coordinate + 1), so boxes of different classes do not overlap
BatchedNms(boxes, order, idxs, th) ==
    IF boxes = <<>> THEN <<>>
    ELSE LET off == MaxCoordinate(boxes) + 1 IN
         Nms([i \in DOMAIN boxes |-> Shift(boxes[i], idxs[i] * off)], order, th)

\* s[ids] for a tensor s and a tensor of ids
Gather(s, ids) == [k \in DOMAIN ids |-> s[ids[k]]]

\* (v == batch_id).nonzero(): the ids holding batch_id, ascending
RECURSIVE IdsOf(_, _, _)
IdsOf(v, batch_id, k) ==
    IF k > Len(v) THEN <<>>
    ELSE (IF v[k] = batch_id THEN <<k>> ELSE <<>>) \o IdsOf(v, batch_id, k + 1)

NmsBoxes  == {[x1 |-> x, y1 |-> 0, x2 |-> x + CellSize, y2 |-> CellSize] : x \in {0, 4, 8}}
NmsScores == {6, 7, 8}                   \* tenths
NmsPreds  == [box : NmsBoxes, score : NmsScores, label : {0, 1}]
NmsKey(p) == p.box.x1 * 100 + p.label * 10 + p.score
IouThreshs == {<<1, 2>>, <<11, 20>>}     \* update_metric's and detect's defaults

\* the lists of predictions, up to their order
RECURSIVE SortedLists(_, _)
SortedLists(n, lo) ==
    IF n = 0 THEN {<<>>}
    ELSE UNION {{<<p>> \o s : s \in SortedLists(n - 1, NmsKey(p))} :
                    p \in {q \in NmsPreds : NmsKey(q) >= lo}}

NmsInputs == UNION {SortedLists(n, 0) : n \in 0..MaxDet}

InitNms ==
    /\ IdleLoss /\ IdleCodec /\ IdleSel /\ IdleCell /\ IdleColl /\ IdleDet /\ IdleCkpt /\ IdleCand /\ IdleChan /\ IdleTrainer /\ IdleFit
    /\ nms_preds \in NmsInputs
    /\ nms_thresh \in IouThreshs
    /\ nms_out = <<>>

\* lines 279-288 of detect: one image, one call
DetectNms ==
    /\ nms_out = <<>>
    /\ nms_thresh # <<>>
    /\ \E boxes  \in {[i \in DOMAIN nms_preds |-> nms_preds[i].box]} :
       \E conf   \in {[i \in DOMAIN nms_preds |-> nms_preds[i].score]} :
       \E labels \in {[i \in DOMAIN nms_preds |-> nms_preds[i].label]} :
       \E order  \in SortOrders(conf) :
       \E final_ids \in {BatchedNms(boxes, order, labels, nms_thresh)} :
          nms_out' = [by   |-> "detect",
                      bids |-> [i \in DOMAIN nms_preds |-> 0],
                      keep |-> <<final_ids>>,
                      conf |-> <<Gather(conf, final_ids)>>,
                      boxes  |-> <<Gather(boxes, final_ids)>>,
                      labels |-> <<Gather(labels, final_ids)>>]
    /\ UNCHANGED <<nms_preds, nms_thresh, varsLoss, varsCodec, varsSel, varsCell, varsColl, varsDet, varsCkpt, varsCand, varsChan, varsTrainer, varsFit>>

\* the scores of the predictions of image batch_id, lines 541-543
MetricScores(bids, batch_id) ==
    Gather([i \in DOMAIN nms_preds |-> nms_preds[i].score], IdsOf(bids, batch_id, 1))

\* one iteration of the loop of update_metric, lines 540-553
MetricImage(bids, batch_id, order) ==
    LET preds_ids == IdsOf(bids, batch_id, 1)
        scores == MetricScores(bids, batch_id)
        boxes  == Gather([i \in DOMAIN nms_preds |-> nms_preds[i].box], preds_ids)
        labels == Gather([i \in DOMAIN nms_preds |-> nms_preds[i].label], preds_ids)
    IN  {[keep   |-> Gather(preds_ids, final_ids),
          scores |-> Gather(scores, final_ids),
          boxes  |-> Gather(boxes, final_ids),
          labels |-> Gather(labels, final_ids)] :
            final_ids \in {BatchedNms(boxes, order, labels, nms_thresh)}}

\* lines 537-557 of update_metric: a batch of two images, preds_index[0] = bids
UpdateMetricNms ==
    /\ nms_out = <<>>
    /\ nms_thresh # <<>>
    /\ \E split \in 0..Len(nms_preds) :
       \E bids \in {[i \in DOMAIN nms_preds |-> IF i <= split THEN 0 ELSE 1]} :
       \E o0 \in SortOrders(MetricScores(bids, 0)) :
       \E o1 \in SortOrders(MetricScores(bids, 1)) :
       \E p0 \in MetricImage(bids, 0, o0) :
       \E p1 \in MetricImage(bids, 1, o1) :
          nms_out' = [by   |-> "update_metric",
                      bids |-> bids,
                      keep |-> <<p0.keep, p1.keep>>,
                      conf |-> <<p0.scores, p1.scores>>,
                      boxes  |-> <<p0.boxes, p1.boxes>>,
                      labels |-> <<p0.labels, p1.labels>>]
    /\ UNCHANGED <<nms_preds, nms_thresh, varsLoss, varsCodec, varsSel, varsCell, varsColl, varsDet, varsCkpt, varsCand, varsChan, varsTrainer, varsFit>>

NextNms == DetectNms \/ UpdateMetricNms

SpecNms == InitNms /\ [][NextNms]_vars

(***************************************************************************)
(* detect: letterbox, confidence gate, decode, class-aware NMS.  The heads *)
(* give background (exp(x) = 0) everywhere except at the slots of HotSlots.*)
(* Slots are (anchor, row, col), the anchor 1-based, rows and columns      *)
(* 0-based.                                                                *)
(***************************************************************************)
\* round(x, 5)
Round5(r) == R(RRound(RMul(r, RInt(100000))), 100000)

\* _detect_preprocess: the side of the frame, scale, pad_x, pad_y
DetectPreprocess(size, align_size) ==
    LET aligned == ((align_size + 63) \div 64) * 64
        longest == Max(size[1], size[2])
        scale == IF aligned >= longest THEN RInt(1) ELSE R(aligned, longest)
        dst_w == RRound(RMul(scale, RInt(size[1])))
        dst_h == RRound(RMul(scale, RInt(size[2])))
    IN  [frame |-> aligned, scale |-> scale, dst_w |-> dst_w, dst_h |-> dst_h,
         pad_x |-> (align_size - dst_w) \div 2,
         pad_y |-> (align_size - dst_h) \div 2]

DetSizes    == {<<64, 64>>, <<128, 64>>}                  \* image.size
DetAligns   == {64, 100}                                  \* align_size
ConfThreshs == {<<1, 4>>, <<3, 5>>, <<101, 100>>}         \* conf_thresh
HotSlots    == {<<1, 1, 1>>, <<2, 1, 1>>, <<1, 1, 2>>}

\* the raw confidences of the tries at one slot, as exp(x): below zero is
\* 1/3, zero is 1, above zero is 3, and 10^8 is where the sigmoid saturates
TryxCases ==
    {[k \in 1..NumTries |-> <<3, 1>>],
     [k \in 1..NumTries |-> IF k = 1 THEN <<1, 3>> ELSE <<3, 1>>],
     [k \in 1..NumTries |-> IF k = NumTries - 1 THEN <<1, 3>> ELSE <<3, 1>>],
     [k \in 1..NumTries |-> IF k = NumTries THEN <<1, 3>> ELSE <<3, 1>>],
     [k \in 1..NumTries |-> <<1, 1>>],
     [k \in 1..NumTries |-> <<100000000, 1>>]}

\* p_tryx[0, anchor, row, col, :]
PTryx(inp, slot) ==
    IF slot \in DOMAIN inp.tryx THEN inp.tryx[slot]
    ELSE [k \in 1..NumTries |-> <<0, 1>>]

\* the gate left open by every try
PConfLastOnly(tryx) == Sigmoid(tryx[Len(tryx)])

\* p_conf at one slot: zeroed where a try before the last is negative, the
\* sigmoid of the last try elsewhere
PConf(tryx) ==
    IF \E k \in 1..(Len(tryx) - 1) : RLt(tryx[k], RInt(1)) THEN RInt(0)
    ELSE Sigmoid(tryx[Len(tryx)])

\* ny = nx: the frame is square and a cell is cell_size pixels
GridSide(inp) == DetectPreprocess(inp.size, inp.align_size).frame \div CellSize

\* mask[0, 0, row, col]: the maximum of p_conf over the anchors is above conf_thresh
Mask(inp, row, col) ==
    \E a \in DOMAIN Anchors :
        /\ \A b \in DOMAIN Anchors :
              RLe(PConf(PTryx(inp, <<b, row, col>>)), PConf(PTryx(inp, <<a, row, col>>)))
        /\ RLt(inp.conf_thresh, PConf(PTryx(inp, <<a, row, col>>)))

\* index = torch.nonzero(mask): the cells of the mask, in row-major order
RECURSIVE IndexFrom(_, _)
IndexFrom(inp, n) ==
    LET nx == GridSide(inp) IN
    IF n >= nx * nx THEN <<>>
    ELSE (IF Mask(inp, n \div nx, n % nx) THEN <<<<n \div nx, n % nx>>>> ELSE <<>>)
         \o IndexFrom(inp, n + 1)

Index(inp) == IndexFrom(inp, 0)

\* anchor_mask and its nonzero: per cell of index, the anchors whose p_conf is
\* above conf_thresh, with rids, cids and conf
RECURSIVE CandidatesFrom(_, _, _)
CandidatesFrom(inp, index, n) ==
    LET na  == Len(Anchors)
        sub == (n \div na) + 1
        a   == (n % na) + 1
    IN  IF n >= Len(index) * na THEN <<>>
        ELSE LET p == PConf(PTryx(inp, <<a, index[sub][1], index[sub][2]>>)) IN
             (IF RLt(inp.conf_thresh, p)
              THEN <<[anchor |-> a, rid |-> index[sub][1], cid |-> index[sub][2], conf |-> p]>>
              ELSE <<>>)
             \o CandidatesFrom(inp, index, n + 1)

Candidates(inp) == CandidatesFrom(inp, Index(inp), 0)

\* what the object head gives for a candidate: dx, dy, sw, sh as exp(x), and
\* the class logits; the last case is a box smaller than a pixel
ObjCases ==
    {[dx |-> <<1, 1>>, dy |-> <<1, 1>>, sw |-> <<1, 1>>, sh |-> <<1, 1>>, clss |-> <<1000, -1000>>],
     [dx |-> <<1, 1>>, dy |-> <<1, 1>>, sw |-> <<2, 1>>, sh |-> <<4, 1>>, clss |-> <<1000, -1000>>],
     [dx |-> <<3, 1>>, dy |-> <<1, 3>>, sw |-> <<1, 32>>, sh |-> <<1, 32>>, clss |-> <<-1000, 1000>>]}

\* the decode of detect, in the frame
DetectBox(o, anchor, rid, cid) ==
    LET cx == RMul(RAdd(RAdd(RInt(cid), Tanh(o.dx)), <<1, 2>>), RInt(CellSize))
        cy == RMul(RAdd(RAdd(RInt(rid), Tanh(o.dy)), <<1, 2>>), RInt(CellSize))
        rw == RMul(Exp(o.sw), RInt(Anchors[anchor][1]))
        rh == RMul(Exp(o.sh), RInt(Anchors[anchor][2]))
        x1 == RSub(cx, RMul(rw, <<1, 2>>))
        y1 == RSub(cy, RMul(rh, <<1, 2>>))
    IN  [x1 |-> x1, y1 |-> y1, x2 |-> RAdd(x1, rw), y2 |-> RAdd(y1, rh)]

\* the letterbox undone and the box clamped to the image
DetectUnpad(b, pre, size) ==
    LET inv == <<pre.scale[2], pre.scale[1]>> IN
    [x1 |-> RClamp(RMul(RSub(b.x1, RInt(pre.pad_x)), inv), RInt(0), RInt(size[1] - 1)),
     y1 |-> RClamp(RMul(RSub(b.y1, RInt(pre.pad_y)), inv), RInt(0), RInt(size[2] - 1)),
     x2 |-> RClamp(RMul(RSub(b.x2, RInt(pre.pad_x)), inv), RInt(1), RInt(size[1])),
     y2 |-> RClamp(RMul(RSub(b.y2, RInt(pre.pad_y)), inv), RInt(1), RInt(size[2]))]

\* torch.softmax(logits).max(): the first of the largest logits (0-based) and
\* its probability, for logits of +-1000
SoftmaxMax(logits) ==
    LET top == {l \in DOMAIN logits : \A m \in DOMAIN logits : logits[m] <= logits[l]} IN
    [indices |-> SetMin(top) - 1, values |-> R(1, Cardinality(top))]

\* a score in millionths, the order of which batched_nms sorts by
Millionths(r) == RFloor(RMul(r, RInt(1000000)))

\* a box in tenths of a pixel
TenthsBox(b) ==
    [x1 |-> Tenths(b.x1), y1 |-> Tenths(b.y1), x2 |-> Tenths(b.x2), y2 |-> Tenths(b.y2)]

DetInputs ==
    [size : DetSizes, align_size : DetAligns, conf_thresh : ConfThreshs,
     iou_thresh : {<<11, 20>>}, tryx : [HotSlots -> TryxCases]]

InitDet ==
    /\ IdleLoss /\ IdleCodec /\ IdleSel /\ IdleCell /\ IdleColl /\ IdleNms /\ IdleCkpt /\ IdleCand /\ IdleChan /\ IdleTrainer /\ IdleFit
    /\ det_in \in DetInputs
    /\ det_pc = "call"
    /\ det_out = <<>>

\* detect, lines 228-249: no cell passes, the empty list is returned
DetectEmpty ==
    /\ det_pc = "call"
    /\ Index(det_in) = <<>>
    /\ det_out' = [pre |-> DetectPreprocess(det_in.size, det_in.align_size),
                   cand |-> <<>>, objs |-> <<>>, boxes |-> <<>>, final_ids |-> <<>>,
                   result |-> <<>>]
    /\ det_pc' = "returned"
    /\ UNCHANGED <<det_in, varsLoss, varsCodec, varsSel, varsCell, varsColl, varsNms, varsCkpt, varsCand, varsChan, varsTrainer, varsFit>>

\* detect, lines 228-298: some cell passes
DetectObjects ==
    /\ det_pc = "call"
    /\ Index(det_in) # <<>>
    /\ \E cand \in {Candidates(det_in)} :
       \E pre \in {DetectPreprocess(det_in.size, det_in.align_size)} :
       \E objs \in [DOMAIN cand -> ObjCases] :
       \E boxes \in {[i \in DOMAIN cand |->
                        DetectUnpad(DetectBox(objs[i], cand[i].anchor, cand[i].rid, cand[i].cid),
                                    pre, det_in.size)]} :
       \E conf \in {[i \in DOMAIN cand |-> cand[i].conf]} :
       \E clss \in {[i \in DOMAIN cand |-> SoftmaxMax(objs[i].clss)]} :
       \E order \in SortOrders([i \in DOMAIN cand |-> Millionths(conf[i])]) :
       \E final_ids \in {BatchedNms([i \in DOMAIN cand |-> TenthsBox(boxes[i])], order,
                                    [i \in DOMAIN cand |-> clss[i].indices],
                                    det_in.iou_thresh)} :
          det_out' = [pre |-> pre,
                      cand |-> cand, objs |-> objs, boxes |-> boxes, final_ids |-> final_ids,
                      result |-> [k \in DOMAIN final_ids |->
                          [score |-> Round5(conf[final_ids[k]]),
                           box   |-> [f \in {"x1", "y1", "x2", "y2"} |->
                                         RRound(boxes[final_ids[k]][f])],
                           label |-> clss[final_ids[k]].indices,
                           prob  |-> Round5(clss[final_ids[k]].values)]]]
    /\ det_pc' = "returned"
    /\ UNCHANGED <<det_in, varsLoss, varsCodec, varsSel, varsCell, varsColl, varsNms, varsCkpt, varsCand, varsChan, varsTrainer, varsFit>>

NextDet == DetectEmpty \/ DetectObjects

SpecDet == InitDet /\ [][NextDet]_vars

(***************************************************************************)
(* The checkpoint mapping: dump_to_state and load_from_state.  A float32   *)
(* is a whole number of steps of 1/F32Steps, a Python float is a rational; *)
(* the weights are the shapes the architecture fixes and the values.       *)
(***************************************************************************)
\* torch.tensor(anchors, dtype=torch.float32)
Tensor32(anchors) ==
    [i \in DOMAIN anchors |-> <<RRound(RMul(anchors[i][1], RInt(F32Steps))),
                                RRound(RMul(anchors[i][2], RInt(F32Steps)))>>]

\* tensor.tolist()
ToList(t) == [i \in DOMAIN t |-> <<R(t[i][1], F32Steps), R(t[i][2], F32Steps)>>]

\* what fixes the shapes of the parameters, lines 84-121
Arch(num_classes, num_anchors, blocks, ranges, tries, swap_size) ==
    <<num_classes, num_anchors, blocks, ranges, tries, swap_size>>

\* the constructor's defaults, lines 48-52
Defaults ==
    [num_dilation_blocks |-> 3, num_dilation_ranges |-> 4, num_tries |-> NumTries,
     swap_size |-> 4, dropout |-> <<1, 5>>]

\* a constructor that leaves dropout at its default
ConstructDefaultDropout(a) ==
    [num_classes |-> a.num_classes,
     anchors     |-> Tensor32(a.anchors),
     num_dilation_blocks |-> a.num_dilation_blocks,
     num_dilation_ranges |-> a.num_dilation_ranges,
     num_tries   |-> a.num_tries,
     swap_size   |-> a.swap_size,
     dropout     |-> Defaults.dropout,
     weights     |-> [arch |-> Arch(a.num_classes, Len(a.anchors), a.num_dilation_blocks,
                                    a.num_dilation_ranges, a.num_tries, a.swap_size),
                      vals |-> "pretrained"]]

\* __init__, lines 44-121
Construct(a) ==
    [num_classes |-> a.num_classes,
     anchors     |-> Tensor32(a.anchors),
     num_dilation_blocks |-> a.num_dilation_blocks,
     num_dilation_ranges |-> a.num_dilation_ranges,
     num_tries   |-> a.num_tries,
     swap_size   |-> a.swap_size,
     dropout     |-> a.dropout,
     weights     |-> [arch |-> Arch(a.num_classes, Len(a.anchors), a.num_dilation_blocks,
                                    a.num_dilation_ranges, a.num_tries, a.swap_size),
                      vals |-> "pretrained"]]

\* the outcome of a call: a model, or the exception raised
Returned(model)  == [raised |-> "", key |-> "", model |-> <<model>>]
Raised(exc, key) == [raised |-> exc, key |-> key, model |-> <<>>]

\* model.load_state_dict(weights), strict
LoadStateDict(model, weights) ==
    IF weights.arch # model.weights.arch THEN Raised("RuntimeError", "")
    ELSE Returned([model EXCEPT !.weights = weights])

\* d[k] with the constructor's default for a key that is missing
GetItemOrDefault(d, k) ==
    IF k \in DOMAIN d THEN <<d[k]>>
    ELSE IF k \in DOMAIN Defaults THEN <<Defaults[k]>>
    ELSE <<>>

\* d[k]: <<the value>>, or <<>> for KeyError
GetItem(d, k) == IF k \in DOMAIN d THEN <<d[k]>> ELSE <<>>

\* the keys load_from_state reads to build the model, in the order it reads them
HyperKeys ==
    <<"num_classes", "anchors", "num_dilation_blocks", "num_dilation_ranges",
      "num_tries", "swap_size", "dropout">>

LoadFromState(state) ==
    IF GetItem(state, "model") = <<>> THEN Raised("KeyError", "model")
    ELSE LET model_state == GetItem(state, "model")[1]
             missing == {i \in DOMAIN HyperKeys : GetItem(model_state, HyperKeys[i]) = <<>>}
         IN  IF missing # {} THEN Raised("KeyError", HyperKeys[SetMin(missing)])
             ELSE LET model == Construct(
                          [num_classes |-> GetItem(model_state, "num_classes")[1],
                           anchors     |-> ToList(GetItem(model_state, "anchors")[1]),
                           num_dilation_blocks |-> GetItem(model_state, "num_dilation_blocks")[1],
                           num_dilation_ranges |-> GetItem(model_state, "num_dilation_ranges")[1],
                           num_tries   |-> GetItem(model_state, "num_tries")[1],
                           swap_size   |-> GetItem(model_state, "swap_size")[1],
                           dropout     |-> GetItem(model_state, "dropout")[1]])
                  IN  IF GetItem(model_state, "weights") = <<>> THEN Raised("KeyError", "weights")
                      ELSE LoadStateDict(model, GetItem(model_state, "weights")[1])

\* the dict dump_to_state builds
ModelDict(m) ==
    [num_classes |-> m.num_classes,
     anchors     |-> m.anchors,
     num_dilation_blocks |-> m.num_dilation_blocks,
     num_dilation_ranges |-> m.num_dilation_ranges,
     num_tries   |-> m.num_tries,
     swap_size   |-> m.swap_size,
     dropout     |-> m.dropout,
     weights     |-> m.weights]

\* state['model'] = dict(...); return state
DumpToState(m, state) ==
    [k \in DOMAIN state \cup {"model"} |-> IF k = "model" THEN ModelDict(m) ELSE state[k]]

\* the models: every hyperparameter at its default or not, the weights trained
AnchorLists == {<<<<<<8, 1>>, <<8, 1>>>>>>, <<<<<<33, 8>>, <<8, 1>>>>, <<<<16, 1>>, <<32, 1>>>>>>}

CkArgs ==
    [num_classes : {2}, anchors : AnchorLists,
     num_dilation_blocks : {3, 2}, num_dilation_ranges : {4, 3},
     num_tries : {3, 2}, swap_size : {4, 8}, dropout : {<<1, 5>>, <<1, 2>>}]

\* a model after training: the attributes the constructor set, the weights moved
Trained(a, vals) ==
    [num_classes |-> a.num_classes,
     anchors     |-> Tensor32(a.anchors),
     num_dilation_blocks |-> a.num_dilation_blocks,
     num_dilation_ranges |-> a.num_dilation_ranges,
     num_tries   |-> a.num_tries,
     swap_size   |-> a.swap_size,
     dropout     |-> a.dropout,
     weights     |-> [arch |-> Arch(a.num_classes, Len(a.anchors), a.num_dilation_blocks,
                                    a.num_dilation_ranges, a.num_tries, a.swap_size),
                      vals |-> vals]]

CkModels == {Trained(a, "trained") : a \in CkArgs}

\* d without the keys of S
Drop(d, S) == [k \in DOMAIN d \ S |-> d[k]]

\* a checkpoint some other model left, every hyperparameter off its default
OtherModel ==
    Trained([num_classes |-> 3, anchors |-> <<<<<<4, 1>>, <<4, 1>>>>>>,
             num_dilation_blocks |-> 1, num_dilation_ranges |-> 2,
             num_tries |-> 1, swap_size |-> 2, dropout |-> <<1, 10>>], "other")

\* the mappings handed in: empty, with an optimizer only, or a checkpoint that
\* lacks at most one key of its model entry
CkStates ==
    {<<>>, [optim |-> "adam"]}
    \cup {[optim |-> "adam", model |-> Drop(ModelDict(OtherModel), S)] :
             S \in {{}} \cup {{k} : k \in DOMAIN ModelDict(OtherModel)}}

InitCkpt ==
    /\ IdleLoss /\ IdleCodec /\ IdleSel /\ IdleCell /\ IdleColl /\ IdleNms /\ IdleDet /\ IdleCand /\ IdleChan /\ IdleTrainer /\ IdleFit
    /\ ck_model \in CkModels
    /\ ck_state \in CkStates
    /\ ck_loaded = <<>>
    /\ ck_redump = <<>>
    /\ ck_pc = "new"

\* m.dump_to_state(state)
DumpToStateCall ==
    /\ ck_pc = "new"
    /\ ck_state' = DumpToState(ck_model, ck_state)
    /\ ck_pc' = "dumped"
    /\ UNCHANGED <<ck_model, ck_loaded, ck_redump, varsLoss, varsCodec, varsSel, varsCell, varsColl, varsNms, varsDet, varsCand, varsChan, varsTrainer, varsFit>>

\* TrimNetX.load_from_state(state), of the mapping handed in or of the dump
LoadFromStateCall ==
    /\ ck_pc \in {"new", "dumped"}
    /\ ck_loaded' = LoadFromState(ck_state)
    /\ ck_pc' = IF ck_pc = "new" THEN "loaded_given" ELSE "loaded_dump"
    /\ UNCHANGED <<ck_model, ck_state, ck_redump, varsLoss, varsCodec, varsSel, varsCell, varsColl, varsNms, varsDet, varsCand, varsChan, varsTrainer, varsFit>>

\* the loaded model dumps itself, into an empty mapping or into the same one
DumpLoadedCall ==
    /\ ck_pc = "loaded_dump"
    /\ ck_loaded.model # <<>>
    /\ \E target \in {<<>>, ck_state} :
          ck_redump' = <<DumpToState(ck_loaded.model[1], target)>>
    /\ ck_pc' = "redumped"
    /\ UNCHANGED <<ck_model, ck_state, ck_loaded, varsLoss, varsCodec, varsSel, varsCell, varsColl, varsNms, varsDet, varsCand, varsChan, varsTrainer, varsFit>>

NextCkpt == DumpToStateCall \/ LoadFromStateCall \/ DumpLoadedCall

SpecCkpt == InitCkpt /\ [][NextCkpt]_vars

(***************************************************************************)
(* The candidate rule, at one slot: what detect, calc_score and            *)
(* update_metric make of the same raw confidences and conf_thresh.  The    *)
(* model has num_confs = Len(confs) heads.                                 *)
(***************************************************************************)
\* the raw confidences of the tries at one slot, as exp(x): x < 0, x = 0, x > 0
CandConfs == UNION {[1..n -> {<<1, 3>>, <<1, 1>>, <<3, 1>>}] : n \in 1..NumTries}

CandInputs == [confs : CandConfs, conf_thresh : {<<1, 4>>, <<1, 2>>, <<3, 5>>}]

\* calc_score, lines 451-455: pred_obj at the slot
PredObj(confs, conf_thresh) ==
    \A cid \in 0..(Len(confs) - 1) :
        LET thresh == IF cid < Len(confs) - 1 THEN <<1, 2>> ELSE conf_thresh IN
        RLt(thresh, Sigmoid(confs[cid + 1]))

\* update_metric, lines 523-527: preds_mask at the slot
PredsMask(confs, conf_thresh) ==
    /\ RLt(<<1, 2>>, Sigmoid(confs[1]))
    /\ \A cid \in 1..(Len(confs) - 1) :
          LET thresh == IF cid < Len(confs) - 1 THEN <<1, 2>> ELSE conf_thresh IN
          RLt(thresh, Sigmoid(confs[cid + 1]))

InitCand ==
    /\ IdleLoss /\ IdleCodec /\ IdleSel /\ IdleCell /\ IdleColl /\ IdleNms /\ IdleDet /\ IdleCkpt /\ IdleChan /\ IdleTrainer /\ IdleFit
    /\ cand_in \in CandInputs
    /\ cand_out = [detect |-> <<>>, calc_score |-> <<>>, update_metric |-> <<>>]

\* detect, lines 242-263: the slot is in anchor_mask, conf is its p_conf
DetectCandidate ==
    /\ cand_in # <<>>
    /\ cand_out.detect = <<>>
    /\ LET p == PConf(cand_in.confs)
           c == RLt(cand_in.conf_thresh, p)
       IN  cand_out' = [cand_out EXCEPT
               !.detect = [cand |-> c, score |-> IF c THEN <<p>> ELSE <<>>]]
    /\ UNCHANGED <<cand_in, varsLoss, varsCodec, varsSel, varsCell, varsColl, varsNms, varsDet, varsCkpt, varsChan, varsTrainer, varsFit>>

\* calc_score, lines 451-461: the slot counts as a proposal
CalcScoreCandidate ==
    /\ cand_in # <<>>
    /\ cand_out.calc_score = <<>>
    /\ cand_out' = [cand_out EXCEPT
           !.calc_score = [cand |-> PredObj(cand_in.confs, cand_in.conf_thresh),
                           score |-> <<>>]]
    /\ UNCHANGED <<cand_in, varsLoss, varsCodec, varsSel, varsCell, varsColl, varsNms, varsDet, varsCkpt, varsChan, varsTrainer, varsFit>>

\* update_metric, lines 523-532: the slot is in preds_index, pred_scores is its score
UpdateMetricCandidate ==
    /\ cand_in # <<>>
    /\ cand_out.update_metric = <<>>
    /\ LET c == PredsMask(cand_in.confs, cand_in.conf_thresh) IN
       cand_out' = [cand_out EXCEPT
           !.update_metric = [cand |-> c,
                              score |-> IF c THEN <<Sigmoid(cand_in.confs[Len(cand_in.confs)])>>
                                        ELSE <<>>]]
    /\ UNCHANGED <<cand_in, varsLoss, varsCodec, varsSel, varsCell, varsColl, varsNms, varsDet, varsCkpt, varsChan, varsTrainer, varsFit>>

NextCand == DetectCandidate \/ CalcScoreCandidate \/ UpdateMetricCandidate

SpecCand == InitCand /\ [][NextCand]_vars

(***************************************************************************)
(* The channel layout.  A channel of the raw output is named by the layer  *)
(* that emits it ("conf" with the number of the head, or "objs") and the   *)
(* index of the channel in that layer's output; anchors, heads and         *)
(* channels are 0-based.                                                   *)
(***************************************************************************)
ChanCfgs ==
    [num_anchors : 1..MaxAnchors, swap_size : {1, 4}, num_tries : 1..NumTries,
     num_classes : 1..NumClasses]

\* the last channel of an anchor's group
ViewSliceLast(a, per_anchor) == a * per_anchor + per_anchor - 1

\* t.view(bs, num_anchors, -1, ny, nx)[:, :, :1]: the channel of t that lands
\* at [a, 0] when each anchor has per_anchor channels
ViewSlice(a, per_anchor) == a * per_anchor

\* t.view(bs, num_anchors, -1, ny, nx)[:, a, j]
View(a, j, per_anchor) == a * per_anchor + j

\* p_tryx[:, a, k], lines 160-162 and 237-239: head k's slice
PTryxChannel(cfg, a, k) ==
    [layer |-> "conf", head |-> k, channel |-> ViewSlice(a, cfg.swap_size + 1)]

\* forward's output[:, a, :, :, ch], lines 158-164
ForwardLayout(cfg) ==
    LET object_dim == 4 + cfg.num_classes IN
    [a \in 0..(cfg.num_anchors - 1) |->
        [ch \in 0..(cfg.num_tries + object_dim - 1) |->
            IF ch < cfg.num_tries THEN PTryxChannel(cfg, a, ch)
            ELSE [layer |-> "objs", head |-> 0,
                  channel |-> View(a, ch - cfg.num_tries, object_dim)]]]

\* detect, lines 233-239 and 252-255: p_tryx[0, a, :, :, k] and p_objs[:, a, j]
DetectLayout(cfg) ==
    LET object_dim == 4 + cfg.num_classes IN
    [a \in 0..(cfg.num_anchors - 1) |->
        [tryx |-> [k \in 0..(cfg.num_tries - 1) |-> PTryxChannel(cfg, a, k)],
         objs |-> [j \in 0..(object_dim - 1) |->
                      [layer |-> "objs", head |-> 0, channel |-> View(a, j, object_dim)]]]]

InitChan ==
    /\ IdleLoss /\ IdleCodec /\ IdleSel /\ IdleCell /\ IdleColl /\ IdleNms /\ IdleDet /\ IdleCkpt /\ IdleCand /\ IdleTrainer /\ IdleFit
    /\ chan_cfg \in ChanCfgs
    /\ chan_out = [forward |-> <<>>, detect |-> <<>>]

\* forward, lines 148-164
ForwardCall ==
    /\ chan_cfg # <<>>
    /\ chan_out.forward = <<>>
    /\ chan_out' = [chan_out EXCEPT !.forward = <<ForwardLayout(chan_cfg)>>]
    /\ UNCHANGED <<chan_cfg, varsLoss, varsCodec, varsSel, varsCell, varsColl, varsNms, varsDet, varsCkpt, varsCand, varsTrainer, varsFit>>

\* detect, lines 233-255
DetectHeadsCall ==
    /\ chan_cfg # <<>>
    /\ chan_out.detect = <<>>
    /\ chan_out' = [chan_out EXCEPT !.detect = <<DetectLayout(chan_cfg)>>]
    /\ UNCHANGED <<chan_cfg, varsLoss, varsCodec, varsSel, varsCell, varsColl, varsNms, varsDet, varsCkpt, varsCand, varsTrainer, varsFit>>

NextChan == ForwardCall \/ DetectHeadsCall

SpecChan == InitChan /\ [][NextChan]_vars

(***************************************************************************)
(* Trainer: the dataclass and initialize.  A Python value that is tested   *)
(* for truth is kept with its type: a bool, or a tuple with its items.     *)
(***************************************************************************)
Bool(b)      == [type |-> "bool", items |-> <<b>>]
Tuple(items) == [type |-> "tuple", items |-> items]
\* the argument was not passed
Omitted      == [type |-> "omitted", items |-> <<>>]

\* bool(v) of Python: a tuple is true when it has an item
Truthy(v) == IF v.type = "bool" THEN v.items[1] ELSE Len(v.items) > 0

\* line 25, `drop_optim: bool=False,`: the trailing comma makes the default
\* the one-item tuple (False,)
DefaultDropOptim == Tuple(<<FALSE>>)

\* a checkpoint file: torch.load gives a dict with 'model' and 'optim';
\* <<>> is checkpoint = None
Checkpoints ==
    {<<>>} \cup {<<c>> : c \in [model : {"w1", "w2"},
                               optim : [lr : {1, 10}, moments : {"m1", "m2"}]]}

TrainerArgs ==
    [checkpoint : Checkpoints,
     drop_optim : {Omitted, Bool(FALSE), Bool(TRUE)},
     lr : {1, 10},
     weight_decay : {0, 1}]

\* the dataclass's __init__, lines 16-30: the fields read by initialize
Trainer(args) ==
    [checkpoint   |-> args.checkpoint,
     drop_optim   |-> IF args.drop_optim = Omitted THEN DefaultDropOptim ELSE args.drop_optim,
     lr           |-> args.lr,
     weight_decay |-> args.weight_decay]

\* initialize, lines 44-70: the model's weights and the optimizer's state
Initialize(self) ==
    LET model     == "init"
        optimizer == [lr |-> self.lr, moments |-> "fresh"]
    IN  IF self.checkpoint # <<>>
        THEN LET state_dict == self.checkpoint[1] IN
             [model     |-> state_dict.model,
              optimizer |-> IF ~Truthy(self.drop_optim) THEN state_dict.optim ELSE optimizer]
        ELSE [model |-> model, optimizer |-> optimizer]

InitTrainer ==
    /\ IdleLoss /\ IdleCodec /\ IdleSel /\ IdleCell /\ IdleColl /\ IdleNms /\ IdleDet /\ IdleCkpt /\ IdleCand /\ IdleChan /\ IdleFit
    /\ tr_args \in TrainerArgs
    /\ tr_out = <<>>

\* Trainer(...).initialize()
InitializeCall ==
    /\ tr_args # <<>>
    /\ tr_out = <<>>
    /\ tr_out' = Initialize(Trainer(tr_args))
    /\ UNCHANGED <<tr_args, varsLoss, varsCodec, varsSel, varsCell, varsColl, varsNms, varsDet, varsCkpt, varsCand, varsChan, varsFit>>

NextTrainer == InitializeCall

SpecTrainer == InitTrainer /\ [][NextTrainer]_vars

(***************************************************************************)
(* Trainer.fit.  A loader is its number of samples, <<>> when it is None   *)
(* and <<n>> otherwise; sample i of a loader is i (0-based).  The calls on *)
(* the task are logged with the mode the model is in when they are made.   *)
(* show_step only drives printing.                                         *)
(***************************************************************************)
Loaders == {<<n>> : n \in 0..MaxLoader}

FitCfgs ==
    [epochs : 1..MaxEpochs, save_epoch : {1, 2},
     train_loader : Loaders,
     valid_loader : {<<>>} \cup Loaders,
     test_loader  : {<<>>} \cup Loaders,
     max_train_step : {0, 1, 2}, max_test_step : {0, 1, 2}]

\* the checkpoint is saved at every epoch
SaveDueAlways(epoch, save_epoch) == TRUE

\* line 133
SaveDue(epoch, save_epoch) == (epoch + 1) % save_epoch = 0

\* lines 112 and 127
Break(step, max_step) == (max_step > 0) /\ (step >= max_step)

\* Task.train_on_step, valid_on_step, test_on_step: model.training after the call
TaskStep(training) == training

Call(op, sample) ==
    [op |-> op, epoch |-> fit_epoch, step |-> fit_step, sample |-> sample,
     training |-> fit_training]

InitFit ==
    /\ IdleLoss /\ IdleCodec /\ IdleSel /\ IdleCell /\ IdleColl /\ IdleNms /\ IdleDet /\ IdleCkpt /\ IdleCand /\ IdleChan /\ IdleTrainer
    /\ fit_cfg \in FitCfgs
    /\ fit_pc = "epoch"
    /\ fit_epoch = 0
    /\ fit_step = 0
    /\ fit_training \in BOOLEAN
    /\ fit_valid = 0
    /\ fit_log = <<>>

\* lines 83-93: the head of an epoch
EpochStart ==
    /\ fit_pc = "epoch"
    /\ fit_epoch < fit_cfg.epochs
    /\ fit_training' = TRUE
    /\ fit_valid' = 0
    /\ fit_step' = 0
    /\ fit_pc' = "train"
    /\ UNCHANGED <<fit_cfg, fit_epoch, fit_log, varsLoss, varsCodec, varsSel, varsCell, varsColl, varsNms, varsDet, varsCkpt, varsCand, varsChan, varsTrainer>>

\* lines 94-113: one iteration of the train loop
TrainStep ==
    /\ fit_pc = "train"
    /\ fit_step < fit_cfg.train_loader[1]
    /\ LET train == Call("train_on_step", fit_step)
           after == TaskStep(fit_training)
       IN  IF fit_cfg.valid_loader = <<>>
           THEN /\ fit_log' = Append(fit_log, train)
                /\ fit_training' = after
                /\ fit_valid' = fit_valid
                /\ fit_pc' = IF Break(fit_step, fit_cfg.max_train_step) THEN "break" ELSE "train"
                /\ fit_step' = IF Break(fit_step, fit_cfg.max_train_step) THEN fit_step ELSE fit_step + 1
           ELSE IF fit_cfg.valid_loader[1] = 0
           THEN \* next() of a fresh iterator of an empty loader: StopIteration leaves fit
                /\ fit_log' = Append(fit_log, train)
                /\ fit_training' = after
                /\ fit_valid' = 0
                /\ fit_pc' = "raised"
                /\ fit_step' = fit_step
           ELSE LET sample == IF fit_valid = fit_cfg.valid_loader[1] THEN 0 ELSE fit_valid
                    valid  == [Call("valid_on_step", sample) EXCEPT !.training = after]
                IN  /\ fit_log' = fit_log \o <<train, valid>>
                    /\ fit_training' = TaskStep(after)
                    /\ fit_valid' = sample + 1
                    /\ fit_pc' = IF Break(fit_step, fit_cfg.max_train_step) THEN "break" ELSE "train"
                    /\ fit_step' = IF Break(fit_step, fit_cfg.max_train_step) THEN fit_step ELSE fit_step + 1
    /\ UNCHANGED <<fit_cfg, fit_epoch, varsLoss, varsCodec, varsSel, varsCell, varsColl, varsNms, varsDet, varsCkpt, varsCand, varsChan, varsTrainer>>

\* lines 115-119: the train loop is over
ModelEval ==
    /\ \/ fit_pc = "train" /\ fit_step = fit_cfg.train_loader[1]
       \/ fit_pc = "break"
    /\ fit_training' = FALSE
    /\ fit_step' = 0
    /\ fit_pc' = IF fit_cfg.test_loader = <<>> THEN "end" ELSE "test"
    /\ UNCHANGED <<fit_cfg, fit_epoch, fit_valid, fit_log, varsLoss, varsCodec, varsSel, varsCell, varsColl, varsNms, varsDet, varsCkpt, varsCand, varsChan, varsTrainer>>

\* lines 120-128: one iteration of the test loop
TestStep ==
    /\ fit_pc = "test"
    /\ fit_step < fit_cfg.test_loader[1]
    /\ fit_log' = Append(fit_log, Call("test_on_step", fit_step))
    /\ fit_training' = TaskStep(fit_training)
    /\ fit_pc' = IF Break(fit_step, fit_cfg.max_test_step) THEN "end" ELSE "test"
    /\ fit_step' = IF Break(fit_step, fit_cfg.max_test_step) THEN fit_step ELSE fit_step + 1
    /\ UNCHANGED <<fit_cfg, fit_epoch, fit_valid, varsLoss, varsCodec, varsSel, varsCell, varsColl, varsNms, varsDet, varsCkpt, varsCand, varsChan, varsTrainer>>

\* lines 130-136: the tail of an epoch
EpochEnd ==
    /\ \/ fit_pc = "test" /\ fit_step = fit_cfg.test_loader[1]
       \/ fit_pc = "end"
    /\ fit_log' = fit_log \o <<Call("end_on_epoch", 0)>> \o
                    (IF SaveDue(fit_epoch, fit_cfg.save_epoch)
                     THEN <<Call("save_checkpoint", 0)>> ELSE <<>>)
    /\ fit_epoch' = fit_epoch + 1
    /\ fit_step' = 0
    /\ fit_pc' = "epoch"
    /\ UNCHANGED <<fit_cfg, fit_training, fit_valid, varsLoss, varsCodec, varsSel, varsCell, varsColl, varsNms, varsDet, varsCkpt, varsCand, varsChan, varsTrainer>>

\* lines 138-141: after the last epoch, with epoch still the last one
Finish ==
    /\ fit_pc = "epoch"
    /\ fit_epoch = fit_cfg.epochs
    /\ fit_log' = Append(fit_log, [Call("save_checkpoint", 0) EXCEPT !.epoch = fit_epoch - 1])
    /\ fit_pc' = "done"
    /\ UNCHANGED <<fit_cfg, fit_epoch, fit_step, fit_training, fit_valid, varsLoss, varsCodec, varsSel, varsCell, varsColl, varsNms, varsDet, varsCkpt, varsCand, varsChan, varsTrainer>>

NextFit == EpochStart \/ TrainStep \/ ModelEval \/ TestStep \/ EpochEnd \/ Finish

SpecFit == InitFit /\ [][NextFit]_vars

(***************************************************************************)
(* Claims about calc_loss / focal_boost.                                   *)
(***************************************************************************)

\* C1: the sample mask round k (k >= 1) reduces over is a subset of the mask
\* round k-1 reduced over (round 0's being all locations).
C1_MaskNarrows ==
    \A k \in 2..Len(used_masks) : used_masks[k] \subseteq used_masks[k - 1]

\* C3: with an empty target index calc_loss returns bbox_loss = 0 and
\* clss_loss = 0 exactly and a finite conf_loss, and no round reduces over an
\* empty sample set.
C3_EmptyTargetLosses ==
    target_index = <<>> =>
        /\ \A k \in DOMAIN used_masks : used_masks[k] # {}
        /\ IsFinite(loss.conf_loss) /\ IsFinite(loss.sampled_loss)
        /\ pc_loss = "done" =>
             /\ loss.bbox_loss = Fin(0)
             /\ loss.clss_loss = Fin(0)
             /\ IsFinite(loss.loss)

C3_Witness ==
    /\ target_index = <<>>
    /\ pc_loss = "done"
    /\ Len(used_masks) = NumTries

(***************************************************************************)
(* Claims about the encode / decode rules.                                 *)
(***************************************************************************)
Tolerance == <<1, 100>>     \* pixels

\* C2: encoding a box with test_target2outputs at the cell of its center and
\* decoding with pred2boxes gives the box back, and the bbox loss (and the
\* class loss) of the pre-populated output is near zero.
C2_RoundTrip ==
    pc_codec = "done" =>
        /\ \A f \in {"x1", "y1", "x2", "y2"} :
              RLe(RAbs(RSub(codec_result.pred_xyxy[f], RInt(codec_target.bbox[f]))),
                  Tolerance)
        /\ codec_result.bbox_loss <= 10      \* 0.01, in units of 1/1000
        /\ codec_result.clss_loss <= 10

(***************************************************************************)
(* Claims about target assignment.                                         *)
(***************************************************************************)
\* the width/height IoU of box b and anchor a, as a rational
WHIoU(b, a) ==
    LET w == b.x2 - b.x1
        h == b.y2 - b.y1
        m == Min(w, a[1]) * Min(h, a[2])
    IN  <<m, w * h + a[1] * a[2] - m>>

\* C4: _select_anchor returns an index maximizing the width/height IoU over
\* the anchor set, and the smallest such index when several attain the maximum.
C4_SelectAnchorArgmax ==
    sel_out # <<>> =>
        LET i == sel_out[1] IN
        /\ i \in DOMAIN sel_anchors
        /\ \A j \in DOMAIN sel_anchors :
              RLe(WHIoU(sel_box, sel_anchors[j]), WHIoU(sel_box, sel_anchors[i]))
        /\ \A j \in 1..(i - 1) :
              RLt(WHIoU(sel_box, sel_anchors[j]), WHIoU(sel_box, sel_anchors[i]))

\* a tie between two different anchors at the maximum, the first of them returned
C4_Witness ==
    /\ sel_out # <<>>
    /\ \E j \in DOMAIN sel_anchors :
          /\ j > sel_out[1]
          /\ sel_anchors[j] # sel_anchors[sel_out[1]]
          /\ ~RLt(WHIoU(sel_box, sel_anchors[j]), WHIoU(sel_box, sel_anchors[sel_out[1]]))

HalfCell == R(CellSize, 2)

\* the cell is floor((center + j) / cell_size) and j lies in [-cell_size/2, cell_size/2)
CellFromJitter(o) ==
    /\ o.cell = RFloor(RMul(RAdd(o.center, o.noise), <<1, CellSize>>))
    /\ RLe(RSub(RInt(0), HalfCell), o.noise)
    /\ RLt(o.noise, HalfCell)

BoxesBefore(s) == SumSeq([j \in 1..(s - 1) |-> Len(coll_batch[j].boxes)])

TotalBoxes == BoxesBefore(Len(coll_batch) + 1)

\* C9: collate_fn gives every ground-truth box exactly one slot: the four
\* sequences of target_index, target_labels and target_bboxes have one entry per
\* box of the batch, entry k of each describes the same box, its batch id is
\* the position of its sample and its anchor id the one _select_anchor returns.
C9_CollateOneSlotPerBox ==
    coll_out # <<>> =>
        LET out == coll_out[1] IN
        /\ \A d \in 1..4 : Len(out.target_index[d]) = TotalBoxes
        /\ Len(out.target_labels) = TotalBoxes
        /\ Len(out.target_bboxes) = TotalBoxes
        /\ \A s \in DOMAIN coll_batch : \A j \in DOMAIN coll_batch[s].boxes :
              LET k == BoxesBefore(s) + j
                  b == coll_batch[s].boxes[j]
              IN  /\ out.target_bboxes[k] = b
                  /\ out.target_labels[k] = coll_batch[s].labels[j]
                  /\ out.target_index[1][k] = s - 1
                  /\ out.target_index[2][k] = SelectAnchor(Anchors, b)
                  /\ \E u \in RandDraws : out.target_index[3][k] = SelectRow(Float32Box(b), u)
                  /\ \E u \in RandDraws : out.target_index[4][k] = SelectColumn(Float32Box(b), u)

\* two samples with boxes, matched to different anchors
C9_Witness ==
    /\ coll_out # <<>>
    /\ Len(coll_batch) >= 2
    /\ Len(coll_batch[1].boxes) >= 1
    /\ Len(coll_batch[2].boxes) >= 1
    /\ \E k \in DOMAIN coll_out[1].target_index[2] :
          coll_out[1].target_index[2][k] # coll_out[1].target_index[2][1]

(***************************************************************************)
(* Claims about non-max suppression.                                       *)
(***************************************************************************)
\* the predictions in the output of detect / update_metric
Kept == UNION {{nms_out.keep[m][k] : k \in DOMAIN nms_out.keep[m]} : m \in DOMAIN nms_out.keep}

\* predictions i and j of one image, of one label, with IoU above iou_thresh
SameClassOverlap(i, j) ==
    /\ i # j
    /\ nms_out.bids[i] = nms_out.bids[j]
    /\ nms_preds[i].label = nms_preds[j].label
    /\ IoUAbove(nms_preds[i].box, nms_preds[j].box, nms_thresh)

\* a prediction is left out only for a prediction of its image and label that
\* is in the output, overlaps it and scores no lower
OnlySuppressedByKeptSameClass ==
    \A i \in DOMAIN nms_preds :
        i \notin Kept =>
            \E k \in Kept : SameClassOverlap(k, i) /\ nms_preds[k].score >= nms_preds[i].score

\* C6 as stated: of two predictions of the same image with the same label and
\* IoU greater than iou_thresh, only the higher-scoring one is in the output,
\* and predictions with different labels never suppress each other.
C6_OnlyHigherScoringKept ==
    nms_out # <<>> =>
        /\ \A i \in DOMAIN nms_preds : \A j \in DOMAIN nms_preds :
              (SameClassOverlap(i, j) /\ nms_preds[i].score > nms_preds[j].score)
                  => (i \in Kept /\ j \notin Kept)
        /\ OnlySuppressedByKeptSameClass

\* C6 amended: of two such predictions at most one is in the output, and never
\* the lower-scoring one together with the higher-scoring one; a prediction is
\* left out only when a prediction of the same image and label that is in the
\* output overlaps it above iou_thresh with a score at least its own (so
\* different labels never suppress each other, and the higher-scoring of a
\* pair is in the output unless it is itself suppressed in this way).
C6_GreedyClassAwareNms ==
    nms_out # <<>> =>
        /\ \A i \in Kept : \A j \in Kept : ~SameClassOverlap(i, j)
        /\ Kept \subseteq DOMAIN nms_preds
        /\ OnlySuppressedByKeptSameClass
        /\ \A m \in DOMAIN nms_out.keep :
              /\ nms_out.conf[m]   = [k \in DOMAIN nms_out.keep[m] |-> nms_preds[nms_out.keep[m][k]].score]
              /\ nms_out.boxes[m]  = [k \in DOMAIN nms_out.keep[m] |-> nms_preds[nms_out.keep[m][k]].box]
              /\ nms_out.labels[m] = [k \in DOMAIN nms_out.keep[m] |-> nms_preds[nms_out.keep[m][k]].label]
              /\ \A k \in DOMAIN nms_out.keep[m] : nms_out.bids[nms_out.keep[m][k]] = m - 1

\* update_metric drops the lower-scoring of a same-label pair and keeps, in
\* the same image, a prediction of another label that overlaps the kept one
C6_Witness ==
    /\ nms_out # <<>>
    /\ nms_out.by = "update_metric"
    /\ \E i \in Kept : \E j \in DOMAIN nms_preds : \E k \in Kept :
          /\ SameClassOverlap(i, j)
          /\ nms_preds[i].score > nms_preds[j].score
          /\ j \notin Kept
          /\ nms_out.bids[k] = nms_out.bids[i]
          /\ nms_preds[k].label # nms_preds[i].label
          /\ IoUAbove(nms_preds[k].box, nms_preds[i].box, nms_thresh)

(***************************************************************************)
(* Claims about detect's confidence gate.                                  *)
(***************************************************************************)
\* the slots of the grid detect looks at
DetSlots ==
    {<<a, r, c>> : a \in DOMAIN Anchors,
                   r \in 0..(GridSide(det_in) - 1), c \in 0..(GridSide(det_in) - 1)}

\* the combined confidence of a slot: 0 if a try before the last is negative,
\* the sigmoid of the last try otherwise
CombinedConfidence(slot) ==
    LET t == PTryx(det_in, slot) IN
    IF \E k \in 1..(NumTries - 1) : t[k][1] < t[k][2] THEN <<0, 1>>
    ELSE Sigmoid(t[NumTries])

SlotPasses(slot) == RLt(det_in.conf_thresh, CombinedConfidence(slot))

\* C5: detect returns the empty list exactly when no (anchor, row, col) slot
\* has combined confidence above conf_thresh: for conf_thresh = 1.01 it returns
\* the empty list whatever the input, and when a slot passes it returns at
\* least one detection (and no more detections than slots that pass).
C5_EmptyExactlyWhenNoSlotPasses ==
    det_pc = "returned" =>
        /\ (det_out.result = <<>>) <=> (\A slot \in DetSlots : ~SlotPasses(slot))
        /\ det_in.conf_thresh = <<101, 100>> => det_out.result = <<>>
        /\ Len(det_out.result) <= Cardinality({slot \in DetSlots : SlotPasses(slot)})

\* conf_thresh = 1.01, a slot whose sigmoid is saturated at 1, the empty list
C5_Witness ==
    /\ det_pc = "returned"
    /\ det_in.conf_thresh = <<101, 100>>
    /\ \E slot \in HotSlots : PConf(det_in.tryx[slot]) = RInt(1)
    /\ det_out.result = <<>>

(***************************************************************************)
(* Claims about the checkpoint mapping.                                    *)
(***************************************************************************)
\* C7: load_from_state of what dump_to_state wrote builds a model with the
\* num_classes, anchors, num_dilation_blocks, num_dilation_ranges, num_tries,
\* swap_size, dropout and weights of m, and that model dumps a 'model' entry
\* equal to the first dump's (the other keys of the mapping are left alone).
C7_CheckpointRoundTrip ==
    /\ ck_pc \in {"dumped", "loaded_dump", "redumped"} =>
          /\ "model" \in DOMAIN ck_state
          /\ DOMAIN ck_state["model"] = {HyperKeys[i] : i \in DOMAIN HyperKeys} \cup {"weights"}
    /\ ck_pc \in {"loaded_dump", "redumped"} =>
          /\ ck_loaded.raised = ""
          /\ ck_loaded.model # <<>>
          /\ \A f \in {"num_classes", "anchors", "num_dilation_blocks", "num_dilation_ranges",
                        "num_tries", "swap_size", "dropout", "weights"} :
                ck_loaded.model[1][f] = ck_model[f]
    /\ ck_pc = "redumped" =>
          /\ ck_redump[1]["model"] = ck_state["model"]
          /\ \A k \in DOMAIN ck_redump[1] \ {"model"} :
                k \in DOMAIN ck_state /\ ck_redump[1][k] = ck_state[k]

\* a model with no hyperparameter at its default and an anchor that float32
\* rounds, dumped over another model's checkpoint, loaded and dumped again
C7_Witness ==
    /\ ck_pc = "redumped"
    /\ \A k \in DOMAIN Defaults : ck_model[k] # Defaults[k]
    /\ ck_model.anchors = Tensor32(<<<<<<33, 8>>, <<8, 1>>>>, <<<<16, 1>>, <<32, 1>>>>>>)
    /\ "optim" \in DOMAIN ck_state
    /\ ck_redump[1] = ck_state

\* C8: load_from_state raises and builds no model whenever the 'model'
\* mapping lacks one of num_classes, anchors, num_dilation_blocks,
\* num_dilation_ranges, num_tries, swap_size, dropout or weights (KeyError,
\* for the first of them it reads); it builds a model only from a mapping
\* that has them all, and with the values the mapping holds.
C8_MissingKeyFails ==
    ck_pc = "loaded_given" =>
        IF "model" \notin DOMAIN ck_state THEN
            ck_loaded.raised = "KeyError" /\ ck_loaded.model = <<>>
        ELSE LET lacking == ({HyperKeys[i] : i \in DOMAIN HyperKeys} \cup {"weights"})
                                \ DOMAIN ck_state["model"]
             IN  /\ lacking # {} =>
                      /\ ck_loaded.raised = "KeyError"
                      /\ ck_loaded.key \in lacking
                      /\ ck_loaded.model = <<>>
                 /\ lacking = {} =>
                      /\ ck_loaded.model # <<>>
                      /\ \A k \in DOMAIN Defaults :
                            ck_loaded.model[1][k] = ck_state["model"][k]

\* a checkpoint without swap_size: KeyError, no model
C8_Witness ==
    /\ ck_pc = "loaded_given"
    /\ "model" \in DOMAIN ck_state
    /\ "swap_size" \notin DOMAIN ck_state["model"]
    /\ ck_loaded.raised = "KeyError"
    /\ ck_loaded.key = "swap_size"
    /\ ck_loaded.model = <<>>

(***************************************************************************)
(* Claims about the candidate rule.                                        *)
(***************************************************************************)
\* sigmoid(conf_k) > 0.5 for every round k in 0..n-2 and sigmoid(conf_{n-1}) > conf_thresh
CandidateRule ==
    LET n == Len(cand_in.confs) IN
    /\ \A k \in 1..(n - 1) : RLt(<<1, 2>>, Sigmoid(cand_in.confs[k]))
    /\ RLt(cand_in.conf_thresh, Sigmoid(cand_in.confs[n]))

\* C11: detect, calc_score and update_metric make the slot a candidate if and
\* only if sigmoid(conf_k) > 0.5 for every round before the last and
\* sigmoid(conf_{n-1}) > conf_thresh, and the score kept is sigmoid(conf_{n-1}).
C11_SameCandidateRule ==
    cand_in # <<>> =>
        \A fn \in DOMAIN cand_out :
            cand_out[fn] # <<>> =>
                /\ cand_out[fn].cand <=> CandidateRule
                /\ (cand_out[fn].cand /\ fn # "calc_score") =>
                      cand_out[fn].score = <<Sigmoid(cand_in.confs[Len(cand_in.confs)])>>

(***************************************************************************)
(* Claims about the boxes detect returns and the letterbox.                *)
(***************************************************************************)
\* C12: every box of a record detect returns lies inside the original image
\* and is nonempty: 0 <= x1 < x2 <= width and 0 <= y1 < y2 <= height.
C12_BoxesInsideNonEmpty ==
    det_pc = "returned" =>
        \A k \in DOMAIN det_out.result :
            LET box == det_out.result[k].box IN
            /\ 0 <= box.x1 /\ box.x1 < box.x2 /\ box.x2 <= det_in.size[1]
            /\ 0 <= box.y1 /\ box.y1 < box.y2 /\ box.y2 <= det_in.size[2]

\* C13: _detect_preprocess builds a square frame of side
\* S = ceil(align_size / 64) * 64 and pastes the resized image entirely inside
\* it: 0 <= pad_x, pad_x + dst_w <= S, 0 <= pad_y, pad_y + dst_h <= S.
C13_LetterboxInsideFrame ==
    det_pc = "returned" =>
        LET pre == det_out.pre
            S   == CHOOSE n \in 1..(det_in.align_size + 64) :
                       n % 64 = 0 /\ n >= det_in.align_size /\ n - 64 < det_in.align_size
        IN  /\ pre.frame = S
            /\ 0 <= pre.pad_x /\ pre.pad_x + pre.dst_w <= S
            /\ 0 <= pre.pad_y /\ pre.pad_y + pre.dst_h <= S

(***************************************************************************)
(* Claims about the channel layout.                                        *)
(***************************************************************************)
\* the layout of the raw output and of what detect reads, with channel k of
\* anchor a being channel `slot` of the swap_size + 1 channels head k emits for a
LayoutWithConfidenceAt(slot) ==
    LET T  == chan_cfg.num_tries
        od == 4 + chan_cfg.num_classes
        sw == chan_cfg.swap_size + 1
    IN  /\ chan_out.forward # <<>> =>
              \A a \in 0..(chan_cfg.num_anchors - 1) :
                  /\ DOMAIN chan_out.forward[1][a] = 0..(T + 4 + chan_cfg.num_classes - 1)
                  /\ \A k \in 0..(T - 1) :
                        chan_out.forward[1][a][k] =
                            [layer |-> "conf", head |-> k, channel |-> a * sw + slot]
                  /\ \A j \in 0..(od - 1) :
                        chan_out.forward[1][a][T + j] =
                            [layer |-> "objs", head |-> 0, channel |-> a * od + j]
        /\ (chan_out.forward # <<>> /\ chan_out.detect # <<>>) =>
              \A a \in 0..(chan_cfg.num_anchors - 1) :
                  /\ \A k \in 0..(T - 1) :
                        chan_out.detect[1][a].tryx[k] = chan_out.forward[1][a][k]
                  /\ \A j \in 0..(od - 1) :
                        chan_out.detect[1][a].objs[j] = chan_out.forward[1][a][T + j]

\* C14 as stated: channel k < num_tries of forward's output is the LAST of
\* the swap_size + 1 channels head k emits for the anchor, channels
\* num_tries..num_tries+3 are the box regression, the remaining num_classes
\* the class logits, and detect reads the same slot of each head.
C14_ConfidenceIsLastChannel ==
    chan_cfg # <<>> => LayoutWithConfidenceAt(chan_cfg.swap_size)

\* C14 amended: the confidence of head k is the FIRST of the swap_size + 1
\* channels head k emits for the anchor; the rest as stated.
C14_ConfidenceIsFirstChannel ==
    chan_cfg # <<>> => LayoutWithConfidenceAt(0)

\* both functions have run on a model with several anchors, the default
\* swap_size and num_tries
C14_Witness ==
    /\ chan_cfg # <<>>
    /\ chan_cfg.num_anchors >= 2 /\ chan_cfg.swap_size = 4 /\ chan_cfg.num_tries = NumTries
    /\ chan_out.forward # <<>> /\ chan_out.detect # <<>>

(***************************************************************************)
(* Claims about the divisor of focal_boost.  The locations of the model    *)
(* are those of a batch of one image, so the count of positives per image  *)
(* is the count of positives.                                              *)
(***************************************************************************)
\* the positive samples of the sample set of the round that ran last
ForegroundSamples == Positives(target_index) \cap used_masks[Len(used_masks)]

\* C15: the auxiliary cross-entropy term of focal_boost is divided by
\* max(1, number of positive samples in the round's sample set / batch size).
C15_DivisorIsForegroundPerImage ==
    used_masks # <<>> => loss.divisor = Max(1, Cardinality(ForegroundSamples))

\* C16: when the target index is non-empty, every true-positive location is
\* in the sample mask of every round, no round reduces over an empty sample
\* set, and the mask a round hands to the next one holds exactly the
\* locations whose confidence in that round is at least the minimum
\* confidence of that round over all true positives.
C16_PositivesStaySampled ==
    target_index # <<>> =>
        /\ \A k \in DOMAIN used_masks :
              /\ Positives(target_index) \subseteq used_masks[k]
              /\ used_masks[k] # {}
        /\ conf_id >= 1 =>
              /\ sample_mask # <<>>
              /\ sample_mask[1] =
                    {l \in Locs : pred_conf[l] >=
                        SetMin({pred_conf[o] : o \in Positives(target_index)})}
              /\ Positives(target_index) \subseteq sample_mask[1]

\* all rounds have run on two positives with different confidences in the
\* last round, after a round whose sample set left a location out
C16_Witness ==
    /\ conf_id = NumTries
    /\ Cardinality(Positives(target_index)) >= 2
    /\ \E a \in Positives(target_index) : \E b \in Positives(target_index) :
          pred_conf[a] < pred_conf[b]
    /\ sample_mask # <<>>
    /\ \E k \in DOMAIN used_masks : used_masks[k] # Locs

\* C17: for every box with positive width and height inside the image, the
\* row and the column collate_fn assigns, jittered or not, are grid
\* indices: 0 <= row < H / cell_size and 0 <= col < W / cell_size.
C17_CellInsideGrid ==
    (/\ cell_out # <<>>
     /\ RLe(RInt(0), cell_box.x1) /\ RLt(cell_box.x1, cell_box.x2)
     /\ RLe(cell_box.x2, RInt(ImageSize))
     /\ RLe(RInt(0), cell_box.y1) /\ RLt(cell_box.y1, cell_box.y2)
     /\ RLe(cell_box.y2, RInt(ImageSize)))
        => (0 <= cell_out.cell /\ cell_out.cell < GridN)

(***************************************************************************)
(* Claims about the Trainer.                                               *)
(***************************************************************************)
\* C18: with a checkpoint given, initialize loads the model state always and
\* the optimizer state exactly when drop_optim is false; a Trainer built
\* without drop_optim (its default) loads the optimizer state.
C18_OptimizerLoadedUnlessDropped ==
    (tr_out # <<>> /\ tr_args.checkpoint # <<>>) =>
        LET state_dict == tr_args.checkpoint[1]
            dropped    == tr_args.drop_optim = Bool(TRUE)
        IN  /\ tr_out.model = state_dict.model
            /\ tr_out.optimizer = state_dict.optim <=> ~dropped

\* the calls of kind op made in epoch e so far
Calls(op, e) == {i \in DOMAIN fit_log : fit_log[i].op = op /\ fit_log[i].epoch = e}

\* C19: with max_train_step = n > 0 at most n train_on_step calls are made
\* per epoch, with max_test_step = m > 0 at most m test_on_step calls; with
\* a cap of 0 every sample of the loader is processed.
C19_StepCaps ==
    fit_cfg # <<>> =>
        \A e \in 0..(fit_cfg.epochs - 1) :
            /\ fit_cfg.max_train_step > 0 =>
                  Cardinality(Calls("train_on_step", e)) <= fit_cfg.max_train_step
            /\ fit_cfg.max_test_step > 0 =>
                  Cardinality(Calls("test_on_step", e)) <= fit_cfg.max_test_step
            /\ (e < fit_epoch /\ fit_cfg.max_train_step = 0) =>
                  Cardinality(Calls("train_on_step", e)) = fit_cfg.train_loader[1]
            /\ (e < fit_epoch /\ fit_cfg.max_test_step = 0 /\ fit_cfg.test_loader # <<>>) =>
                  Cardinality(Calls("test_on_step", e)) = fit_cfg.test_loader[1]

\* the calls of epoch e other than save_checkpoint
StepsOf(e) == {i \in DOMAIN fit_log : fit_log[i].epoch = e /\ fit_log[i].op # "save_checkpoint"}

====
